---- MODULE Spec2Model ----
(***************************************************************************)
(* Content-asset to Knowledge-article synchronisation.                     *)
(*                                                                         *)
(* The model follows the export job: a run selects content assets,        *)
(* authenticates, and exports the assets in batches; every asset is        *)
(* upserted against the remote versioned store (lookup by external id,    *)
(* then create / update draft / create draft from published, then an      *)
(* optional publish).  The remote store and the people publishing in it   *)
(* are the environment.                                                    *)
(***************************************************************************)
EXTENDS Integers, Sequences, FiniteSets, TLC

VARIABLES
    remote,      \* the remote store: a set of article version rows
    nextId,      \* next version id the remote allocates
    tokenCache,  \* request-scoped OAuth token memo (NoValue when empty)
    content,     \* per content asset: the sync metadata custom attributes
    config,      \* effective configuration the job step is set up with
    assets,      \* content ids selected for the run, in source order
    pc,          \* position of the job: "idle", "export", "done"
    idx,         \* number of assets of the run already upserted
    batchRes,    \* exportBatch's result for the batch in progress
    totals,      \* exportToExternalAPI's aggregate result
    status,      \* Status returned by the last run
    runs,        \* number of runs started
    now,         \* wall clock
    last,        \* observation log: the latest upsert of the batch in progress
    prev,        \* observation log: summary of the upsert before it
    hist,        \* observation log: summary of the latest upsert, kept until
                 \* someone changes the remote by hand
    exportMode,  \* config.exportMode of the job step: "full" or "delta"
    modified,    \* per content asset: its lastModified timestamp
    online,      \* the content assets that are online when the run selects
    batches,     \* observation log: the batch function's invocations in the run
    runLog,      \* observation log: one entry per asset processed in the run
    synced,      \* observation log: the assets whose sync metadata was written
                 \* and that nobody edited since
    allConfigs,  \* the parsed SiteConfigurations object: _defaults and site blocks
    siteID,      \* the site whose configuration is asked for
    effectiveConfig, \* what getSiteConfiguration returned, once it was called
    param,       \* the job step's parameters (ServiceID, SiteConfigurations)
    trace,       \* observation log: the token requests, remote calls and
                 \* sync-metadata writes issued since the log was started
    payload,     \* the article data upsert hands to create or update
    recordTypeCache, \* the record-type helper's module variable: id per cache key
    applied      \* observation log: the latest call of the transform engine or
                 \* of validateTransforms, with its arguments and its outcome

vars == <<remote, nextId, tokenCache, content, config, assets, pc, idx,
          batchRes, totals, status, runs, now, last, prev, hist,
          exportMode, modified, online, batches, runLog, synced,
          allConfigs, siteID, effectiveConfig, param, trace, payload,
          recordTypeCache, applied>>

\* The variables of the configuration resolution
siteVars == <<allConfigs, siteID, effectiveConfig>>

\* The variables of the step's parameters, its log of calls, the payload and
\* the record-type cache
stepVars == <<param, trace, payload, recordTypeCache, applied>>

-----------------------------------------------------------------------------
(* Bounds *)

MaxVersions == 3
MaxRuns == 2
MaxRecords == 5
MaxBatchSize == 3
MaxCalls == 4
MaxCacheCalls == 6
MaxLen == 3
MaxChain == 3

-----------------------------------------------------------------------------
(* Values *)

NoValue == "none"          \* JavaScript null / undefined for strings
NoId == 0                  \* JavaScript null / undefined for ids

EXTERNAL_ID_FIELD == "SFCC_External_ID__c"
DefaultArticleType == "Knowledge__kav"

ContentIds == {"a", "b"}

\* formatContentAsset: the formatted asset handed to the mapping.
\* Asset "b" has an empty name (asset.name || '').
formatContentAsset(c) ==
    [ID |-> c, name |-> IF c = "a" THEN "How to" ELSE ""]

\* Field mappings a site may configure (target field -> source path).
MapTitle == [Title |-> "name"]
MapFull == [Title |-> "name", UrlName |-> "ID"]
FieldMappings == {MapTitle, MapFull}

DataCategories == {NoValue}

\* Master ids live in their own id space (kA0...), version ids in another (ka0...).
MasterBase == 100
MasterOf(versionId) == MasterBase + versionId

NoVersion == [id |-> NoId, master |-> NoId, status |-> "none", ext |-> NoValue, vnum |-> 0]

Versions ==
    [id : 1..MaxVersions, master : {MasterOf(i) : i \in 1..MaxVersions},
     status : {"Draft", "Online", "Archived"}, ext : ContentIds, vnum : 1..MaxVersions]

-----------------------------------------------------------------------------
(* The remote versioned store (environment) *)

MaxOf(S) == CHOOSE n \in S : \A m \in S : m <= n

\* SOQL: WHERE ext = .. [AND PublishStatus = ..] ORDER BY VersionNumber DESC LIMIT 1.
\* The rows that may come first: those with the highest version number.
QueryRows(rem, ext, st) ==
    LET S == {v \in rem : v.ext = ext /\ (st = "Any" \/ v.status = st)}
    IN  {v \in S : \A w \in S : w.vnum <= v.vnum}

HasDraft(rem, m) == \E v \in rem : v.master = m /\ v.status = "Draft"
HasOnline(rem, m) == \E v \in rem : v.master = m /\ v.status = "Online"

\* POST /sobjects/<type>: a new master with one Draft version.
RemoteCreate(rem, id, ext) ==
    rem \cup {[id |-> id, master |-> MasterOf(id), status |-> "Draft", ext |-> ext, vnum |-> 1]}

\* POST masterVersions: a new Draft version of a published master, copied
\* from its Online version.  The remote refuses it when the master has a Draft.
RemoteCanEdit(rem, m) == HasOnline(rem, m) /\ ~HasDraft(rem, m)
RemoteEdit(rem, id, m) ==
    LET on == CHOOSE v \in rem : v.master = m /\ v.status = "Online"
        top == MaxOf({v.vnum : v \in {w \in rem : w.master = m}})
    IN  rem \cup {[id |-> id, master |-> m, status |-> "Draft", ext |-> on.ext, vnum |-> top + 1]}

\* PATCH /sobjects/<type>/<id>: field values change, the row stays what it is.
RemoteUpdate(rem, id, ext) ==
    {IF v.id = id THEN [v EXCEPT !.ext = ext] ELSE v : v \in rem}

\* publishKnowledgeArticles: a Draft goes Online, the master's former Online
\* version is archived.  Only a Draft can be published.
RemoteCanPublish(rem, id) == \E v \in rem : v.id = id /\ v.status = "Draft"
RemotePublish(rem, id) ==
    LET d == CHOOSE v \in rem : v.id = id
    IN  {IF v.id = id THEN [v EXCEPT !.status = "Online"]
         ELSE IF v.master = d.master /\ v.status = "Online" THEN [v EXCEPT !.status = "Archived"]
         ELSE v : v \in rem}

-----------------------------------------------------------------------------
(* Remote calls and their answers *)

\* service.call answers: "ok" is status OK with object.success, "err" is
\* status ERROR with no object (parseResponse runs for 2xx answers only).
Answers == {"ok", "err"}

\* One answer per remote call an upsert may issue.
Outcomes ==
    [auth : Answers, qd : Answers, qo : Answers, qa : Answers,
     edit : Answers, write : Answers, requery : Answers, publish : Answers]

NoPayload == [k \in {} |-> NoValue]

Call(op, target, ext, ok, body) ==
    [op |-> op, target |-> target, ext |-> ext, ok |-> ok, body |-> body]

\* Variant: a result that never carries a warning
Result_NoWarning(success, kaid, vid, operation, publishStatus, error, warning) ==
    [success |-> success, knowledgeArticleId |-> kaid, versionId |-> vid,
     operation |-> operation, publishStatus |-> publishStatus, error |-> error,
     warning |-> NoValue, contentId |-> NoValue]

Result(success, kaid, vid, operation, publishStatus, error, warning) ==
    [success |-> success, knowledgeArticleId |-> kaid, versionId |-> vid,
     operation |-> operation, publishStatus |-> publishStatus,
     error |-> error, warning |-> warning, contentId |-> NoValue]

\* Variant: a failure reported with success=true
Failure_AsSuccess(error, operation) ==
    Result(TRUE, NoId, NoId, operation, NoValue, error, NoValue)

Failure(error, operation) ==
    Result(FALSE, NoId, NoId, operation, NoValue, error, NoValue)

-----------------------------------------------------------------------------
(* contentMappingHelper: mapping a content asset to an article payload *)

getNestedProperty(obj, path) ==
    IF path \in DOMAIN obj THEN obj[path] ELSE NoValue

\* Strings and null pass through unchanged (only objects are converted).
convertToSalesforceSafeValue(value) == value

mapContentToArticle(asset, articleType, fieldMapping, dataCategory, isCreate) ==
    LET val(f) == convertToSalesforceSafeValue(getNestedProperty(asset, fieldMapping[f]))
        mapped == {f \in DOMAIN fieldMapping : val(f) # NoValue /\ val(f) # ""}
        lang == IF isCreate THEN {"Language"} ELSE {}
        cat == IF dataCategory # NoValue /\ dataCategory # ""
               THEN {"DataCategorySelections"} ELSE {}
    IN  [k \in {"attributes"} \cup mapped \cup lang \cup cat |->
            IF k \in cat THEN dataCategory
            ELSE IF k \in lang THEN "en_US"
            ELSE IF k \in mapped THEN val(k)
            ELSE articleType]

\* articleData[EXTERNAL_ID_FIELD] = contentAsset.ID
WithExternalId(data, id) ==
    [k \in DOMAIN data \cup {EXTERNAL_ID_FIELD} |->
        IF k = EXTERNAL_ID_FIELD THEN id ELSE data[k]]

\* Object.keys(data).length <= 1
MappingIsEmpty(data) == Cardinality(DOMAIN data) <= 1

-----------------------------------------------------------------------------
(* salesforceKnowledgeHelper: lookup *)

\* Which of the three queries return a row to the caller.
DraftQueryHit(rem, ext, o) == o.qd = "ok" /\ QueryRows(rem, ext, "Draft") # {}
OnlineQueryHit(rem, ext, o) == o.qo = "ok" /\ QueryRows(rem, ext, "Online") # {}
AllQueryHit(rem, ext, o) == o.qa = "ok" /\ QueryRows(rem, ext, "Any") # {}

\* The rows findArticleByExternalId may return ({NoVersion} stands for null).
findArticleByExternalId(rem, ext, o) ==
    IF DraftQueryHit(rem, ext, o) THEN QueryRows(rem, ext, "Draft")
    ELSE IF OnlineQueryHit(rem, ext, o) THEN QueryRows(rem, ext, "Online")
    ELSE IF AllQueryHit(rem, ext, o) THEN QueryRows(rem, ext, "Any")
    ELSE {NoVersion}

\* The queries findArticleByExternalId issues, in order.
LookupCalls(rem, ext, o) ==
    LET qd == <<Call("queryDraft", NoId, ext, o.qd = "ok", NoPayload)>>
        qo == <<Call("queryOnline", NoId, ext, o.qo = "ok", NoPayload)>>
        qa == <<Call("queryAll", NoId, ext, o.qa = "ok", NoPayload)>>
    IN  IF DraftQueryHit(rem, ext, o) THEN qd
        ELSE IF OnlineQueryHit(rem, ext, o) THEN qd \o qo
        ELSE qd \o qo \o qa

-----------------------------------------------------------------------------
(* salesforceKnowledgeHelper: publish, update with versioning, create *)

\* The outcome of a write path: the result handed back, the calls issued,
\* and the remote store afterwards.
Path(res, calls, rem, nid) ==
    [res |-> res, calls |-> calls, remote |-> rem, nextId |-> nid]

\* publishArticle succeeds when the Actions API answers isSuccess.
PublishOk(rem, id, o) == o.publish = "ok" /\ RemoteCanPublish(rem, id)

\* Variant: the update always targets the version the lookup found
DraftIdFor_FoundId(existing, editDraftId) == existing.id

\* The version the update call (and the publish call) targets.
DraftIdFor(existing, editDraftId) ==
    IF existing.status = "Online" THEN editDraftId ELSE existing.id

\* Variant: the update result reports the version id as master id
UpdateResult_NoMaster(existing, draftId, publishArticles, pubOk) ==
    IF publishArticles
    THEN IF ~pubOk
         THEN Result(TRUE, draftId, draftId, "update", "draft", NoValue, "Publish failed: ")
         ELSE Result(TRUE, draftId, draftId, "update", "online", NoValue, NoValue)
    ELSE Result(TRUE, draftId, draftId, "update", "draft", NoValue, NoValue)

\* Result of the update path once the PATCH succeeded.
UpdateResult(existing, draftId, publishArticles, pubOk) ==
    IF publishArticles
    THEN IF ~pubOk
         THEN Result(TRUE, existing.master, draftId, "update", "draft", NoValue, "Publish failed: ")
         ELSE Result(TRUE, existing.master, draftId, "update", "online", NoValue, NoValue)
    ELSE Result(TRUE, existing.master, draftId, "update", "draft", NoValue, NoValue)

\* Variant: the publish call is issued whatever publishArticles says
PublishCalls_Always(publishArticles, target, pubOk) ==
    <<Call("publish", target, NoValue, pubOk, NoPayload)>>

\* The publish call issued after a successful write, if any.
PublishCalls(publishArticles, target, pubOk) ==
    IF publishArticles THEN <<Call("publish", target, NoValue, pubOk, NoPayload)>> ELSE <<>>

\* Variant: the update is issued on the found version when the draft could
\* not be created
updateArticleWithVersioning_UpdatesAnyway(rem, nid, existing, data, publishArticles, o) ==
    LET isOnline == existing.status = "Online"
        editOk == o.edit = "ok" /\ RemoteCanEdit(rem, existing.master) /\ nid <= MaxVersions
        editCalls == IF isOnline
                     THEN <<Call("edit", existing.master, NoValue, editOk, NoPayload)>>
                     ELSE <<>>
        rem1 == IF isOnline /\ editOk THEN RemoteEdit(rem, nid, existing.master) ELSE rem
        nid1 == IF isOnline /\ editOk THEN nid + 1 ELSE nid
        draftId == IF isOnline /\ editOk THEN nid ELSE existing.id
        updOk == o.write = "ok"
        updCall == Call("update", draftId, NoValue, updOk, data)
        rem2 == IF updOk THEN RemoteUpdate(rem1, draftId, data[EXTERNAL_ID_FIELD]) ELSE rem1
        pubOk == PublishOk(rem2, draftId, o)
        rem3 == IF publishArticles /\ pubOk THEN RemotePublish(rem2, draftId) ELSE rem2
    IN  IF ~updOk
        THEN Path(Failure("Failed to update draft: ", "update_draft"),
                  editCalls \o <<updCall>>, rem1, nid1)
        ELSE Path(UpdateResult(existing, draftId, publishArticles, pubOk),
                  editCalls \o <<updCall>> \o PublishCalls(publishArticles, draftId, pubOk),
                  rem3, nid1)

updateArticleWithVersioning(rem, nid, existing, data, publishArticles, o) ==
    LET isOnline == existing.status = "Online"
        editOk == o.edit = "ok" /\ RemoteCanEdit(rem, existing.master) /\ nid <= MaxVersions
        editCalls == IF isOnline
                     THEN <<Call("edit", existing.master, NoValue, editOk, NoPayload)>>
                     ELSE <<>>
        rem1 == IF isOnline /\ editOk THEN RemoteEdit(rem, nid, existing.master) ELSE rem
        nid1 == IF isOnline /\ editOk THEN nid + 1 ELSE nid
        draftId == DraftIdFor(existing, nid)
        updOk == o.write = "ok"
        updCall == Call("update", draftId, NoValue, updOk, data)
        rem2 == IF updOk THEN RemoteUpdate(rem1, draftId, data[EXTERNAL_ID_FIELD]) ELSE rem1
        pubOk == PublishOk(rem2, draftId, o)
        rem3 == IF publishArticles /\ pubOk THEN RemotePublish(rem2, draftId) ELSE rem2
    IN  IF isOnline /\ ~editOk
        THEN Path(Failure("Failed to create draft: ", "edit_online"), editCalls, rem, nid)
        ELSE IF ~updOk
        THEN Path(Failure("Failed to update draft: ", "update_draft"),
                  editCalls \o <<updCall>>, rem1, nid1)
        ELSE Path(UpdateResult(existing, draftId, publishArticles, pubOk),
                  editCalls \o <<updCall>> \o PublishCalls(publishArticles, draftId, pubOk),
                  rem3, nid1)

\* The master id createArticle reports: re-queried, or the version id as fallback.
CreatedMasterId(articleId, requeryOk) ==
    IF requeryOk THEN MasterOf(articleId) ELSE articleId

\* Variant: the create result reports online whenever the publish did not fail
CreateResult_Online(kaid, articleId, publishArticles, pubOk) ==
    IF publishArticles /\ ~pubOk
    THEN Result(TRUE, kaid, articleId, "create", "draft", NoValue, "Publish failed: ")
    ELSE Result(TRUE, kaid, articleId, "create", "online", NoValue, NoValue)

\* Result of the create path once the POST succeeded.
CreateResult(kaid, articleId, publishArticles, pubOk) ==
    IF publishArticles
    THEN IF ~pubOk
         THEN Result(TRUE, kaid, articleId, "create", "draft", NoValue, "Publish failed: ")
         ELSE Result(TRUE, kaid, articleId, "create", "online", NoValue, NoValue)
    ELSE Result(TRUE, kaid, articleId, "create", "draft", NoValue, NoValue)

\* Variant: a failed create call is issued a second time
createArticle_Retries(rem, nid, data, publishArticles, o) ==
    LET createOk == o.write = "ok" /\ nid <= MaxVersions
        articleId == nid
        createCall == Call("create", NoId, data[EXTERNAL_ID_FIELD], createOk, data)
        rem1 == RemoteCreate(rem, articleId, data[EXTERNAL_ID_FIELD])
        requeryOk == o.requery = "ok"
        requeryCall == Call("requery", articleId, NoValue, requeryOk, NoPayload)
        kaid == CreatedMasterId(articleId, requeryOk)
        pubOk == PublishOk(rem1, articleId, o)
        rem2 == IF publishArticles /\ pubOk THEN RemotePublish(rem1, articleId) ELSE rem1
    IN  IF ~createOk
        THEN Path(Failure("Create failed", "create"), <<createCall, createCall>>, rem, nid)
        ELSE Path(CreateResult(kaid, articleId, publishArticles, pubOk),
                  <<createCall, requeryCall>> \o PublishCalls(publishArticles, articleId, pubOk),
                  rem2, nid + 1)

createArticle(rem, nid, data, publishArticles, o) ==
    LET createOk == o.write = "ok" /\ nid <= MaxVersions
        articleId == nid
        createCall == Call("create", NoId, data[EXTERNAL_ID_FIELD], createOk, data)
        rem1 == RemoteCreate(rem, articleId, data[EXTERNAL_ID_FIELD])
        requeryOk == o.requery = "ok"
        requeryCall == Call("requery", articleId, NoValue, requeryOk, NoPayload)
        kaid == CreatedMasterId(articleId, requeryOk)
        pubOk == PublishOk(rem1, articleId, o)
        rem2 == IF publishArticles /\ pubOk THEN RemotePublish(rem1, articleId) ELSE rem1
    IN  IF ~createOk
        THEN Path(Failure("Create failed", "create"), <<createCall>>, rem, nid)
        ELSE Path(CreateResult(kaid, articleId, publishArticles, pubOk),
                  <<createCall, requeryCall>> \o PublishCalls(publishArticles, articleId, pubOk),
                  rem2, nid + 1)

-----------------------------------------------------------------------------
(* salesforceKnowledgeHelper: upsert *)

\* getAccessToken inside the upsert: the cached token, else a fresh request.
AuthOk(cache, o) == cache # NoValue \/ o.auth = "ok"

\* result.contentId = contentAsset.ID
WithContentId(p, id) == [p EXCEPT !.res.contentId = id]

\* Variant: upsert creates whatever the lookup returned
UpsertWrite_AlwaysCreate(rem, nid, asset, cfg, found, o) ==
    LET createData == mapContentToArticle(asset, cfg.articleType, cfg.fieldMapping,
                                          cfg.dataCategory, TRUE)
    IN  WithContentId(
            createArticle(rem, nid, WithExternalId(createData, asset.ID),
                          cfg.publishArticles, o),
            asset.ID)

\* What upsert does with the row the lookup returned.
UpsertWrite(rem, nid, asset, cfg, found, o) ==
    IF found # NoVersion
    THEN LET updateData == mapContentToArticle(asset, cfg.articleType, cfg.fieldMapping,
                                               cfg.dataCategory, FALSE)
         IN  IF MappingIsEmpty(updateData)
             THEN Path(Failure("Failed to map content to article", NoValue), <<>>, rem, nid)
             ELSE WithContentId(
                      updateArticleWithVersioning(rem, nid, found,
                          WithExternalId(updateData, asset.ID), cfg.publishArticles, o),
                      asset.ID)
    ELSE LET createData == mapContentToArticle(asset, cfg.articleType, cfg.fieldMapping,
                                               cfg.dataCategory, TRUE)
         IN  IF MappingIsEmpty(createData)
             THEN Path(Failure("Failed to map content to article", NoValue), <<>>, rem, nid)
             ELSE WithContentId(
                      createArticle(rem, nid, WithExternalId(createData, asset.ID),
                                    cfg.publishArticles, o),
                      asset.ID)

\* upsertKnowledgeArticle for the row `found` the lookup returned.
upsertKnowledgeArticle(rem, nid, asset, cfg, found, o, cache) ==
    IF cfg.serviceID = NoValue \/ cfg.serviceID = ""
    THEN Path(Failure("Service ID is required but not provided in configuration", NoValue),
              <<>>, rem, nid)
    ELSE IF ~AuthOk(cache, o)
    THEN Path(Failure("Authentication failed: ", NoValue), <<>>, rem, nid)
    ELSE LET w == UpsertWrite(rem, nid, asset, cfg, found, o)
         IN  Path(w.res, LookupCalls(rem, asset.ID, o) \o w.calls, w.remote, w.nextId)

-----------------------------------------------------------------------------
(* The job: configuration, selection, batches *)

ServiceID == "salesforce.oauth"

BatchSizes == {1, 2}

\* Effective configurations of the job step (after the job filled in its
\* defaults); the step keeps its parameters from run to run.
Configs ==
    [articleType : {DefaultArticleType}, fieldMapping : FieldMappings,
     dataCategory : DataCategories, publishArticles : BOOLEAN,
     batchSize : BatchSizes, serviceID : {ServiceID}]

ExportModes == {"full", "delta"}

\* The order in which the content search returns the assets.
ContentOrder == <<"a", "b">>

\* Variant: the delta test also takes an asset modified at its sync time
DeltaInclude_NotStrict(lastSyncDateTime, lastModified) ==
    IF lastSyncDateTime # NoId /\ lastModified # NoId
    THEN ~(lastModified < lastSyncDateTime)
    ELSE TRUE

\* getContentAssets, the delta test: is the asset exported in delta mode?
DeltaInclude(lastSyncDateTime, lastModified) ==
    IF lastSyncDateTime # NoId /\ lastModified # NoId
    THEN ~(lastModified <= lastSyncDateTime)
    ELSE TRUE

\* Variant: every online asset is exported, whatever the mode
Selected_AllOnline(c, on, cont, mod, mode) == c \in on

\* getContentAssets: is the asset exported?
Selected(c, on, cont, mod, mode) ==
    /\ c \in on
    /\ mode = "delta" => DeltaInclude(cont[c].sfLastSyncDateTime, mod[c])

\* getContentAssets: the assets to export, in search order.
getContentAssets(on, cont, mod, mode) ==
    SelectSeq(ContentOrder, LAMBDA c : Selected(c, on, cont, mod, mode))

\* The job reads the assets of its folders; with the one folder there is,
\* that is getContentAssets on it.
getContentAssetsFromMultipleFolders(on, cont, mod, mode) ==
    getContentAssets(on, cont, mod, mode)

NoMeta == [sfKnowledgeArticleId |-> NoId, sfKnowledgeVersionId |-> NoId,
           sfLastSyncDateTime |-> NoId]

EmptyBatch == [success |-> TRUE, successCount |-> 0, failureCount |-> 0, details |-> <<>>]

EmptyTotals == [totalProcessed |-> 0, totalSuccess |-> 0, totalFailed |-> 0, errors |-> <<>>]

Min(x, y) == IF x <= y THEN x ELSE y

\* Variant: the number of batches rounded down
TotalBatches_Floor(n, b) == n \div b

\* exportToExternalAPI: Math.ceil(contentAssets.length / batchSize)
TotalBatches(n, b) == (n + b - 1) \div b

\* exportToExternalAPI: contentAssets.slice(startIdx, endIdx) for loop index i
Slice(list, i, b) == SubSeq(list, i * b + 1, Min(i * b + b, Len(list)))

\* One invocation of the batch function: its slice and how it ended
\* ("returned" with success, "failed" without, "threw").
Invocation(slice, outcome) == [slice |-> slice, outcome |-> outcome]

\* Variant: a batch that threw is not counted as failed
AccumulateThrown_NotFailed(t, n, batchNo) ==
    [t EXCEPT !.totalProcessed = @ + n,
              !.errors = Append(@, batchNo)]

\* exportToExternalAPI: totals after the batch function threw on a batch of length n
AccumulateThrown(t, n, batchNo) ==
    [t EXCEPT !.totalProcessed = @ + n,
              !.totalFailed = @ + n,
              !.errors = Append(@, batchNo)]

\* batch = contentAssets.slice(startIdx, endIdx): its length
BatchLen == Min(config.batchSize, Len(assets) - totals.totalProcessed)

\* exportBatch: the detail entry pushed for one upsert result
Detail(c, r) ==
    [contentId |-> c, success |-> r.success, knowledgeArticleId |-> r.knowledgeArticleId,
     versionId |-> r.versionId, operation |-> r.operation,
     publishStatus |-> r.publishStatus, error |-> r.error, warning |-> r.warning]

\* Variant: a failed upsert is not counted
TrackResult_FailuresUncounted(b, c, r) ==
    [b EXCEPT !.details = Append(@, Detail(c, r)),
              !.successCount = IF r.success THEN @ + 1 ELSE @]

\* exportBatch: result after one more upsert
TrackResult(b, c, r) ==
    [b EXCEPT !.details = Append(@, Detail(c, r)),
              !.successCount = IF r.success THEN @ + 1 ELSE @,
              !.failureCount = IF r.success THEN @ ELSE @ + 1]

\* exportToExternalAPI: totals after a batch of length n returned b
Accumulate(t, b, n, batchNo) ==
    IF b.success
    THEN [t EXCEPT !.totalProcessed = @ + n,
                   !.totalSuccess = @ + (IF b.successCount # 0 THEN b.successCount ELSE n)]
    ELSE [t EXCEPT !.totalProcessed = @ + n,
                   !.totalFailed = @ + n,
                   !.errors = Append(@, batchNo)]

\* execute, step 6: the Status of the run
FinalStatus(t) ==
    IF t.totalSuccess = 0 /\ t.totalFailed > 0 THEN "ERROR" ELSE "OK"

\* execute, step 6: the message of the run's Status
FinalMessage(t) ==
    IF t.totalSuccess = 0 /\ t.totalFailed > 0 THEN "All exports failed"
    ELSE IF t.totalFailed > 0 THEN "Partial success"
    ELSE "Success"

\* Variant: the callback writes the sync metadata of failed details as well
WriteSyncMetadata_AllDetails(cont, details, metaOk, time) ==
    [c \in ContentIds |->
        IF \E i \in 1..Len(details) : details[i].contentId = c /\ metaOk[i]
        THEN LET i == CHOOSE j \in 1..Len(details) : details[j].contentId = c /\ metaOk[j]
             IN  [sfKnowledgeArticleId |-> details[i].knowledgeArticleId,
                  sfKnowledgeVersionId |-> details[i].versionId,
                  sfLastSyncDateTime |-> time]
        ELSE cont[c]]

\* The job's batch callback: sync metadata is written for the details that
\* succeeded and carry both ids; metaOk says which writes went through.
WriteSyncMetadata(cont, details, metaOk, time) ==
    [c \in ContentIds |->
        IF \E i \in 1..Len(details) :
              /\ details[i].contentId = c
              /\ details[i].success
              /\ details[i].knowledgeArticleId # NoId
              /\ details[i].versionId # NoId
              /\ metaOk[i]
        THEN LET i == CHOOSE j \in 1..Len(details) :
                          details[j].contentId = c /\ details[j].success /\ metaOk[j]
             IN  [sfKnowledgeArticleId |-> details[i].knowledgeArticleId,
                  sfKnowledgeVersionId |-> details[i].versionId,
                  sfLastSyncDateTime |-> time]
        ELSE cont[c]]

-----------------------------------------------------------------------------
(* Observation log *)

\* One upsert as seen from outside: the rows with the asset's external id
\* before it, the row the lookup returned, the calls issued, the result.
Obs(c, run, pub, pre, found, calls, res) ==
    [c |-> c, run |-> run, pub |-> pub, pre |-> pre, found |-> found,
     calls |-> calls, res |-> res]

NoObs == Obs(NoValue, 0, FALSE, {}, NoVersion, <<>>, Failure(NoValue, NoValue))

Ops(calls) == {calls[i].op : i \in 1..Len(calls)}
AllOk(calls) == \A i \in 1..Len(calls) : calls[i].ok

\* What is kept of an upsert once it has returned.
Summary(ob, updatable) ==
    [c |-> ob.c, pub |-> ob.pub, clean |-> AllOk(ob.calls),
     versionId |-> ob.res.versionId, foundStatus |-> ob.found.status,
     oneArticle |-> Cardinality({v.master : v \in ob.pre}) <= 1,
     updatable |-> updatable]

NoSummary ==
    [c |-> NoValue, pub |-> FALSE, clean |-> FALSE, versionId |-> NoId,
     foundStatus |-> "none", oneArticle |-> FALSE, updatable |-> FALSE]

\* Variant: the callback skips the details that carry a warning
MetaInvoked_NotWithWarning(b, i) ==
    /\ b.success
    /\ Len(b.details) > 0
    /\ b.details[i].success
    /\ b.details[i].warning = NoValue
    /\ b.details[i].knowledgeArticleId # NoId
    /\ b.details[i].versionId # NoId

\* Variant: the callback never invokes updateSyncMetadata
MetaInvoked_Never(b, i) == FALSE

\* The job's batch callback: is updateSyncMetadata invoked for detail i?
MetaInvoked(b, i) ==
    /\ b.success
    /\ Len(b.details) > 0
    /\ b.details[i].success
    /\ b.details[i].knowledgeArticleId # NoId
    /\ b.details[i].versionId # NoId

\* What the run log keeps of one processed asset: its upsert result, the
\* sync metadata the asset had when its batch was exported, and the
\* updateSyncMetadata invocations for it (how many, with which ids, whether
\* the last one succeeded).
LogEntry(d, before, invoked, ok) ==
    [c |-> d.contentId, success |-> d.success,
     knowledgeArticleId |-> d.knowledgeArticleId, versionId |-> d.versionId,
     before |-> before,
     metaCalls |-> IF invoked THEN 1 ELSE 0,
     metaArticleId |-> IF invoked THEN d.knowledgeArticleId ELSE NoId,
     metaVersionId |-> IF invoked THEN d.versionId ELSE NoId,
     metaOk |-> invoked /\ ok]

\* The run log of a specification that keeps none.
LogOff ==
    <<[c |-> "off", success |-> FALSE, knowledgeArticleId |-> NoId, versionId |-> NoId,
       before |-> NoMeta, metaCalls |-> 0, metaArticleId |-> NoId,
       metaVersionId |-> NoId, metaOk |-> FALSE]>>

\* The run log after a batch returned b and its callback ran.
LogBatch(log, b, cont, metaOk) ==
    IF log = LogOff THEN LogOff
    ELSE log \o [i \in 1..Len(b.details) |->
                    LogEntry(b.details[i], cont[b.details[i].contentId],
                             MetaInvoked(b, i), metaOk[i])]

\* Answers that cannot change what the upsert does are fixed to "ok", so
\* that each behaviour of the upsert is taken once: the answers of calls it
\* does not issue, and the answer of a query that matches no row.
Canonical(o, rem, ext, found, cfg, cache) ==
    LET wrote == o.write = "ok"
    IN  /\ cache # NoValue => o.auth = "ok"
        /\ QueryRows(rem, ext, "Draft") = {} => o.qd = "ok"
        /\ (DraftQueryHit(rem, ext, o) \/ QueryRows(rem, ext, "Online") = {}) => o.qo = "ok"
        /\ (DraftQueryHit(rem, ext, o) \/ OnlineQueryHit(rem, ext, o)
              \/ QueryRows(rem, ext, "Any") = {}) => o.qa = "ok"
        /\ found.status # "Online" => o.edit = "ok"
        /\ (found # NoVersion \/ ~wrote) => o.requery = "ok"
        /\ (~cfg.publishArticles \/ ~wrote) => o.publish = "ok"
        /\ (found.status = "Online" /\ o.edit = "err") => wrote

-----------------------------------------------------------------------------
(* siteConfigHelper: the effective configuration of a site *)

\* An object of the configuration JSON, as the function from its own keys
Restrict(f, keys) == [k \in keys |-> f[k]]

EmptyObject == Restrict([x |-> 0], {})

\* Values of the configuration JSON with their JavaScript type; a number is
\* the fraction n / d
Num(n, d) == [type |-> "number", n |-> n, d |-> d]
NonNumber(type) == [type |-> type, n |-> 0, d |-> 1]

\* Object values of a block (fieldMapping, static): some fields, each a string
FieldNames == {"p", "q"}
Objects == UNION {[d -> {"x", "y"}] : d \in SUBSET FieldNames}

\* The keys a block may carry: a simple value, an object value, and static
ConfigKeys == {"batchSize", "fieldMapping", "static"}

\* The blocks: any subset of the keys, with any values
Blocks ==
    {Restrict(full, d) :
        full \in [batchSize : {Num(k, 1) : k \in 1..MaxBatchSize},
                  fieldMapping : Objects, static : Objects],
        d \in SUBSET ConfigKeys}

SiteIDs == {"siteA", "siteB"}

\* The parsed SiteConfigurations: _defaults and the block of siteA may each
\* be there or not; siteB has no block
SiteConfigurations ==
    UNION {[d -> Blocks] : d \in SUBSET {"_defaults", "siteA"}}

NoConfigs == EmptyObject

\* getSiteConfiguration was not called
Unresolved == [resolved |-> FALSE, config |-> EmptyObject]

\* Variant: on a field both carry, the default's value is kept
mergeStaticFields_DefaultsWin(defaultStatic, siteStatic) ==
    [k \in DOMAIN defaultStatic \cup DOMAIN siteStatic |->
        IF k \in DOMAIN defaultStatic THEN defaultStatic[k] ELSE siteStatic[k]]

\* mergeStaticFields: the default fields, then the site's fields over them
mergeStaticFields(defaultStatic, siteStatic) ==
    [k \in DOMAIN defaultStatic \cup DOMAIN siteStatic |->
        IF k \in DOMAIN siteStatic THEN siteStatic[k] ELSE defaultStatic[k]]

\* Variant: fieldMapping is merged field by field, as static is
mergeConfigurations_MergeObjects(defaults, siteConfig) ==
    [k \in DOMAIN defaults \cup DOMAIN siteConfig |->
        IF k \in DOMAIN siteConfig
        THEN IF k \in {"static", "fieldMapping"}
             THEN mergeStaticFields(IF k \in DOMAIN defaults
                                    THEN defaults[k] ELSE EmptyObject,
                                    siteConfig[k])
             ELSE siteConfig[k]
        ELSE defaults[k]]

\* mergeConfigurations: the defaults, then every key of the site block over
\* them; static alone is merged
mergeConfigurations(defaults, siteConfig) ==
    [k \in DOMAIN defaults \cup DOMAIN siteConfig |->
        IF k \in DOMAIN siteConfig
        THEN IF k = "static"
             THEN mergeStaticFields(IF "static" \in DOMAIN defaults
                                    THEN defaults.static ELSE EmptyObject,
                                    siteConfig.static)
             ELSE siteConfig[k]
        ELSE defaults[k]]

\* allConfigs._defaults || {}
DefaultsOf(all) == IF "_defaults" \in DOMAIN all THEN all["_defaults"] ELSE EmptyObject

\* getSiteConfiguration
getSiteConfiguration(all, id) ==
    IF id \notin DOMAIN all
    THEN DefaultsOf(all)
    ELSE mergeConfigurations(DefaultsOf(all), all[id])

-----------------------------------------------------------------------------
(* salesforceAuthHelper: the token and its request-scoped cache *)

\* Service identities a caller may pass
ServiceIDs == {ServiceID, "salesforce.oauth.b"}

\* The org a service's credential points at
InstanceUrl(serviceId) == serviceId

\* An authResult without a token: a failed getAccessToken, and the cache
\* slot request.custom[CACHE_KEY] when nothing is stored in it
NoAuth == [success |-> FALSE, accessToken |-> 0, instanceUrl |-> NoValue]

\* The authResult built from an OAuth response; every response carries a
\* new access token
AuthResult(serviceId, serial) ==
    [success |-> TRUE, accessToken |-> serial, instanceUrl |-> InstanceUrl(serviceId)]

\* Variant: the cache is written but never read
getAccessToken_NoCache(cache, serviceId, answer, serial) ==
    IF serviceId = NoValue \/ serviceId = ""
    THEN [result |-> NoAuth, cache |-> cache, oauth |-> FALSE]
    ELSE IF answer = "ok"
    THEN [result |-> AuthResult(serviceId, serial),
          cache |-> AuthResult(serviceId, serial), oauth |-> TRUE]
    ELSE [result |-> NoAuth, cache |-> cache, oauth |-> TRUE]

\* getAccessToken: what it returns, what the cache holds afterwards, and
\* whether the OAuth endpoint was called.  The cache slot has one fixed key.
getAccessToken(cache, serviceId, answer, serial) ==
    IF serviceId = NoValue \/ serviceId = ""
    THEN [result |-> NoAuth, cache |-> cache, oauth |-> FALSE]
    ELSE IF cache.success
    THEN [result |-> cache, cache |-> cache, oauth |-> FALSE]
    ELSE IF answer = "ok"
    THEN [result |-> AuthResult(serviceId, serial),
          cache |-> AuthResult(serviceId, serial), oauth |-> TRUE]
    ELSE [result |-> NoAuth, cache |-> cache, oauth |-> TRUE]

\* clearCachedToken
clearCachedToken(cache) == NoAuth

\* Answers of a Knowledge or Tooling API call: fine, rejected with 401, or
\* failed otherwise
RemoteAnswers == {"ok", "401", "err"}

\* Log entries: a getAccessToken call, a remote call made with a token, a
\* clearCachedToken call
TokenEvent(serviceId, g) ==
    [op |-> "getAccessToken", service |-> serviceId, oauth |-> g.oauth,
     result |-> g.result, answer |-> NoValue]

RemoteEvent(op, token, answer) ==
    [op |-> op, service |-> NoValue, oauth |-> FALSE, result |-> token, answer |-> answer]

ClearEvent ==
    [op |-> "clearCachedToken", service |-> NoValue, oauth |-> FALSE,
     result |-> NoAuth, answer |-> NoValue]

\* Number of tokens the OAuth endpoint has issued in the log
TokensIssued(log) ==
    Cardinality({i \in 1..Len(log) :
        log[i].op = "getAccessToken" /\ log[i].oauth /\ log[i].result.success})

-----------------------------------------------------------------------------
(* The record-type helper: getRecordTypeId and its module-level cache *)

\* Article types and record-type names a configuration may carry; "" is a
\* configuration without a recordTypeName
ArticleTypes == {DefaultArticleType, "FAQ__kav"}
RecordTypeNames == {"", "FAQ", "HowTo"}

\* cacheKey = articleType + ':' + recordTypeName
CacheKeyOf(articleType, recordTypeName) == articleType \o ":" \o recordTypeName

CacheKeys == {CacheKeyOf(t, n) : t \in ArticleTypes, n \in RecordTypeNames \ {""}}

\* The id the remote holds for a record type
RecordTypeIdOf(key) == "Id of " \o key

\* var recordTypeCache = {}: no key has an entry
NoRecordTypes == [k \in CacheKeys |-> NoValue]

\* Answers of the record-type query: one record, no record, a failed call
RecordTypeAnswers == {"found", "none", "err"}

\* getRecordTypeId: its result, whether it queried the remote, and the cache
\* afterwards.  Only an id that was found is cached.
getRecordTypeId(cache, recordTypeName, articleType, answer) ==
    IF recordTypeName = ""
    THEN [success |-> TRUE, recordTypeId |-> NoValue, queried |-> FALSE, cache |-> cache]
    ELSE LET cacheKey == CacheKeyOf(articleType, recordTypeName)
         IN  IF cache[cacheKey] # NoValue
             THEN [success |-> TRUE, recordTypeId |-> cache[cacheKey], queried |-> FALSE,
                   cache |-> cache]
             ELSE IF answer = "found"
             THEN [success |-> TRUE, recordTypeId |-> RecordTypeIdOf(cacheKey),
                   queried |-> TRUE,
                   cache |-> [cache EXCEPT ![cacheKey] = RecordTypeIdOf(cacheKey)]]
             ELSE [success |-> FALSE, recordTypeId |-> NoValue, queried |-> TRUE,
                   cache |-> cache]

\* clearCache
clearCache(cache) == NoRecordTypes

\* Log entries: the start of a run, and a getRecordTypeId call with its
\* cache key, whether it queried the remote (oauth) and the id it returned
\* (answer)
RunEvent ==
    [op |-> "beforeStep", service |-> NoValue, oauth |-> FALSE,
     result |-> NoAuth, answer |-> NoValue]

RecordTypeEvent(key, r) ==
    [op |-> "getRecordTypeId", service |-> key, oauth |-> r.queried,
     result |-> NoAuth, answer |-> r.recordTypeId]

-----------------------------------------------------------------------------
(* The job step's parameters and the validation of the configuration *)

\* validateConfiguration: the limits of batchSize
MinBatchSizeAllowed == 1
DefaultBatchSize == 50
MaxBatchSizeAllowed == 500

Numerators ==
    (-1..3) \cup ((MaxBatchSizeAllowed - 1)..(MaxBatchSizeAllowed + 1))
            \cup ((2 * MaxBatchSizeAllowed - 1)..(2 * MaxBatchSizeAllowed + 1))

\* The batchSize values tried: integers and halves around the limits, and
\* values that are not numbers
BatchSizeValues ==
    {Num(n, d) : n \in Numerators, d \in {1, 2}}
        \cup {NonNumber(t) : t \in {"string", "boolean", "object", "null"}}

IsInteger(v) == v.type = "number" /\ v.n % v.d = 0

\* Variant: a batchSize below the lower limit passes
BatchSizeRejected_NoLowerLimit(v) ==
    v.type # "number" \/ v.n > MaxBatchSizeAllowed * v.d

\* validateConfiguration, batchSize: typeof is not 'number', or < 1, or > 500
BatchSizeRejected(v) ==
    \/ v.type # "number"
    \/ v.n < MinBatchSizeAllowed * v.d
    \/ v.n > MaxBatchSizeAllowed * v.d

BatchSizeError == "batchSize must be a number between 1 and 500"

\* A transform spec as the configuration's JSON gives it.
\*   json     what the value is: "string", "object", "array", "number", "null"
\*   name     string notation: the text before the first ':'
\*            object notation: the type property when it is a string
\*   parts    string notation: the texts between the ':' after the name
\*   typeKind object notation: what the type property is
\*   with     object notation: the with / separator / replaceWith property
\*            (<<>> when absent or empty)
\*   pattern  object notation: the pattern property (<<>> when absent)
\*   items    array: the specs of the list
TransformSpecOf(json, name, parts, typeKind, with, pattern, items) ==
    [json |-> json, name |-> name, parts |-> parts, typeKind |-> typeKind,
     with |-> with, pattern |-> pattern, items |-> items]

\* "name", "name:p1", "name:p1:p2", ...
StringSpec(name, parts) == TransformSpecOf("string", name, parts, "undefined", <<>>, <<>>, <<>>)

\* {type: name, with: ..., pattern: ...}
ObjectSpec(name, with, pattern) ==
    TransformSpecOf("object", name, <<>>, "string", with, pattern, <<>>)

\* An object without a type, and one whose type is a number
UntypedSpec == TransformSpecOf("object", NoValue, <<>>, "undefined", <<>>, <<>>, <<>>)
NumberTypedSpec == TransformSpecOf("object", NoValue, <<>>, "number", <<>>, <<>>, <<>>)

\* [spec, spec, ...]
ListSpec(items) == TransformSpecOf("array", NoValue, <<>>, "undefined", <<>>, <<>>, items)

\* A spec that is a number
NumberSpec == TransformSpecOf("number", NoValue, <<>>, "undefined", <<>>, <<>>, <<>>)

\* typeof transform: arrays are objects
TypeOf(transform) == IF transform.json = "array" THEN "object" ELSE transform.json

supportedTransforms ==
    {"replaceSpaces", "urlSafe", "lowercase", "uppercase", "removeSpaces", "replace"}

\* validateTransforms, for a transforms value that is an object
validateTransforms(transforms) ==
    LET t(f) == transforms[f]
        untyped == {f \in DOMAIN transforms :
                       TypeOf(t(f)) = "object" /\ t(f).typeKind = "undefined"}
        illTyped == {f \in DOMAIN transforms :
                        TypeOf(t(f)) = "object" /\ t(f).typeKind \notin {"undefined", "string"}}
        invalid == {f \in DOMAIN transforms : TypeOf(t(f)) \notin {"string", "object"}}
        unknown == {f \in DOMAIN transforms :
                       /\ \/ TypeOf(t(f)) = "string"
                          \/ TypeOf(t(f)) = "object" /\ t(f).typeKind = "string"
                       /\ t(f).name \notin supportedTransforms}
        errors ==
            {"Transform object for field " \o f \o " must have a \"type\" property" :
                f \in untyped}
            \cup {"Transform type for field " \o f \o " must be a string" : f \in illTyped}
            \cup {"Transform for field " \o f \o " must be a string or object" :
                     f \in invalid}
    IN  [valid |-> errors = {}, errors |-> errors,
         warnings |-> {"Unknown transform for field " \o f : f \in unknown}]

\* validateConfiguration, for a configuration whose other keys are well typed
validateConfiguration(cfg) ==
    LET batchSizeErrors ==
            IF "batchSize" \in DOMAIN cfg /\ BatchSizeRejected(cfg.batchSize)
            THEN {BatchSizeError} ELSE {}
        transformErrors ==
            IF "transforms" \in DOMAIN cfg
            THEN validateTransforms(cfg.transforms).errors ELSE {}
        errors == batchSizeErrors \cup transformErrors
    IN  [valid |-> errors = {}, errors |-> errors]

\* What the SiteConfigurations parameter may hold: nothing, text that is not
\* JSON, JSON that is a scalar, a JSON array, a JSON object
ParamKinds == {"missing", "malformed", "scalar", "array", "object"}

\* The blocks of the object: with or without a batchSize
BatchBlocks == {EmptyObject} \cup {[batchSize |-> v] : v \in BatchSizeValues}

\* The objects: no block, or one block under _defaults or under siteA
StepConfigurations ==
    {EmptyObject} \cup UNION {[{k} -> BatchBlocks] : k \in {"_defaults", "siteA"}}

NoParam == [serviceID |-> NoValue, kind |-> "missing", configs |-> EmptyObject]

StepParams ==
    {p \in [serviceID : {ServiceID, ""}, kind : ParamKinds, configs : StepConfigurations] :
        p.kind # "object" => p.configs = EmptyObject}

NoConfig == [ok |-> FALSE, value |-> EmptyObject]

\* parseSiteConfigurations: null for empty text, for text JSON.parse rejects,
\* and for a value whose typeof is not 'object'; an array has typeof 'object'
\* and carries neither _defaults nor a site key
parseSiteConfigurations(p) ==
    IF p.kind \in {"missing", "malformed", "scalar"}
    THEN NoConfig
    ELSE [ok |-> TRUE, value |-> p.configs]

\* execute, steps 1 and 2: the message of the ERROR Status the step returns,
\* or NoValue and the effective configuration
Configure(p, site, oauthValid) ==
    LET parsed == parseSiteConfigurations(p)
        cfg == getSiteConfiguration(parsed.value, site)
        fail(msg) == [error |-> msg, config |-> EmptyObject]
    IN  IF p.serviceID = NoValue \/ p.serviceID = ""
        THEN fail("Service ID not configured in job parameters")
        ELSE IF ~oauthValid
        THEN fail("Invalid configuration: ")
        ELSE IF p.kind = "missing"
        THEN fail("SiteConfigurations parameter is required")
        ELSE IF ~parsed.ok
        THEN fail("Invalid SiteConfigurations JSON")
        ELSE IF ~validateConfiguration(cfg).valid
        THEN fail("Invalid configuration for site: ")
        ELSE IF LET batchSize == IF "batchSize" \in DOMAIN cfg
                                 THEN cfg.batchSize ELSE Num(DefaultBatchSize, 1)
                IN  \/ batchSize.n < MinBatchSizeAllowed * batchSize.d
                    \/ batchSize.n > MaxBatchSizeAllowed * batchSize.d
        THEN fail("Invalid batch size")
        ELSE [error |-> NoValue, config |-> cfg]

-----------------------------------------------------------------------------
(* fieldTransformHelper: transforms of mapped values *)

\* The strings of the model, spelled as characters
KnownStrings ==
    {"How to Reset Password?", "how to reset password?", "how-to-reset-password",
     "howtoresetpassword", "FAQ", "faq", "Fixed", "Web"}

Chars(s) ==
    CASE s = "How to Reset Password?" -> <<"H", "o", "w", " ", "t", "o", " ", "R", "e", "s", "e", "t", " ", "P", "a", "s", "s", "w", "o", "r", "d", "?">>
      [] s = "how to reset password?" -> <<"h", "o", "w", " ", "t", "o", " ", "r", "e", "s", "e", "t", " ", "p", "a", "s", "s", "w", "o", "r", "d", "?">>
      [] s = "how-to-reset-password" -> <<"h", "o", "w", "-", "t", "o", "-", "r", "e", "s", "e", "t", "-", "p", "a", "s", "s", "w", "o", "r", "d">>
      [] s = "howtoresetpassword" -> <<"h", "o", "w", "t", "o", "r", "e", "s", "e", "t", "p", "a", "s", "s", "w", "o", "r", "d">>
      [] s = "FAQ" -> <<"F", "A", "Q">>
      [] s = "faq" -> <<"f", "a", "q">>
      [] s = "Fixed" -> <<"F", "i", "x", "e", "d">>
      [] s = "Web" -> <<"W", "e", "b">>

\* The string that is spelled by the characters
Str(chars) ==
    IF \E s \in KnownStrings : Chars(s) = chars
    THEN CHOOSE s \in KnownStrings : Chars(s) = chars
    ELSE "(other)"

UpperCaseLetters ==
    <<"A", "B", "C", "D", "E", "F", "G", "H", "I", "J", "K", "L", "M", 
      "N", "O", "P", "Q", "R", "S", "T", "U", "V", "W", "X", "Y", "Z">>
LowerCaseLetters ==
    <<"a", "b", "c", "d", "e", "f", "g", "h", "i", "j", "k", "l", "m", 
      "n", "o", "p", "q", "r", "s", "t", "u", "v", "w", "x", "y", "z">>
Digits == {"0", "1", "2", "3", "4", "5", "6", "7", "8", "9"}

\* String.prototype.toLowerCase, one character
Lower(c) ==
    IF \E i \in 1..Len(UpperCaseLetters) : UpperCaseLetters[i] = c
    THEN LowerCaseLetters[CHOOSE i \in 1..Len(UpperCaseLetters) : UpperCaseLetters[i] = c]
    ELSE c

\* \s
Spaces == {" ", "\t", "\n"}

\* [a-z0-9]
IsAlnum(c) ==
    c \in Digits \/ \E i \in 1..Len(LowerCaseLetters) : LowerCaseLetters[i] = c

\* The characters after the leading ones that are in the class
RECURSIVE DropWhile(_, _)
DropWhile(chars, class) ==
    IF chars # <<>> /\ Head(chars) \in class THEN DropWhile(Tail(chars), class) ELSE chars

Reverse(chars) == [i \in 1..Len(chars) |-> chars[Len(chars) + 1 - i]]

\* replace(/[class]+/g, with): every run of characters of the class becomes `with`
RECURSIVE ReplaceRuns(_, _, _)
ReplaceRuns(chars, class, with) ==
    IF chars = <<>> THEN <<>>
    ELSE IF Head(chars) \in class
    THEN with \o ReplaceRuns(DropWhile(chars, class), class, with)
    ELSE <<Head(chars)>> \o ReplaceRuns(Tail(chars), class, with)

\* Variant: urlSafe keeps the case of the letters
transformUrlSafe_KeepsCase(chars, separator) ==
    LET spaced == ReplaceRuns(chars, Spaces, <<separator>>)
        kept == SelectSeq(spaced, LAMBDA c : IsAlnum(c) \/ c = separator)
        single == ReplaceRuns(kept, {separator}, <<separator>>)
    IN  Reverse(DropWhile(Reverse(DropWhile(single, {separator})), {separator}))

\* transformUrlSafe with a separator of one character: lower case, runs of
\* white space to the separator, everything but [a-z0-9] and the separator
\* removed, runs of the separator to one, separators at both ends removed
transformUrlSafe(chars, separator) ==
    LET lowered == [i \in 1..Len(chars) |-> Lower(chars[i])]
        spaced == ReplaceRuns(lowered, Spaces, <<separator>>)
        kept == SelectSeq(spaced, LAMBDA c : IsAlnum(c) \/ c = separator)
        single == ReplaceRuns(kept, {separator}, <<separator>>)
    IN  Reverse(DropWhile(Reverse(DropWhile(single, {separator})), {separator}))

\* transformLowercase
transformLowercase(chars) == [i \in 1..Len(chars) |-> Lower(chars[i])]

\* The transform specs of the model in string notation, name[:parameter]
TransformSpecs == {"urlSafe:-", "urlSafe", "lowercase", "unknown"}

\* transform.split(':'): the name and the parameter of a spec
TransformName(transform) ==
    IF transform \in {"urlSafe:-", "urlSafe"} THEN "urlSafe" ELSE transform

TransformParameter(transform) ==
    IF transform = "urlSafe:-" THEN "-" ELSE NoValue

\* applyStringTransform
applyStringTransform(value, transform) ==
    LET parameter == TransformParameter(transform)
    IN  IF TransformName(transform) = "urlSafe"
        THEN Str(transformUrlSafe(Chars(value), IF parameter # NoValue THEN parameter ELSE "-"))
        ELSE IF TransformName(transform) = "lowercase"
        THEN Str(transformLowercase(Chars(value)))
        ELSE value

\* applyTransform, for a spec in string notation
applyTransform(value, transform) ==
    IF value = NoValue \/ value = "" THEN value ELSE applyStringTransform(value, transform)

\* applyTransformsToFields: the mapped fields, each field that has a
\* transform with its transformed value
applyTransformsToFields(mappedFields, transforms) ==
    [k \in DOMAIN mappedFields |->
        IF k \in DOMAIN transforms
        THEN applyTransform(mappedFields[k], transforms[k])
        ELSE mappedFields[k]]

-----------------------------------------------------------------------------
(* fieldTransformHelper on any value and any spec, values spelled as
   characters *)

\* The characters of the values: a lower-case and an upper-case letter,
\* white space, the default separator, a character that is special in
\* regular expressions
Alphabet == {"a", "B", " ", "-", "?"}

Strings == UNION {[1..n -> Alphabet] : n \in 0..MaxLen}

\* JavaScript values: strings, numbers (with the characters String(value)
\* spells) and null
JsString(chars) == [type |-> "string", chars |-> chars]
JsNumber(digits) == [type |-> "number", chars |-> digits]
JsNull == [type |-> "null", chars |-> <<>>]

Values == {JsString(s) : s \in Strings} \cup {JsNumber(<<"0">>), JsNumber(<<"7">>), JsNull}

\* !value
Falsy(value) ==
    \/ value.type = "null"
    \/ value.type = "string" /\ value.chars = <<>>
    \/ value.type = "number" /\ value.chars = <<"0">>

\* What a transform function did: it returned characters or it threw
ReturnedChars(chars) == [threw |-> FALSE, chars |-> chars]
Thrown == [threw |-> TRUE, chars |-> <<>>]

\* String.prototype.toUpperCase, one character
Upper(c) ==
    IF \E i \in 1..Len(LowerCaseLetters) : LowerCaseLetters[i] = c
    THEN UpperCaseLetters[CHOOSE i \in 1..Len(LowerCaseLetters) : LowerCaseLetters[i] = c]
    ELSE c

\* transformReplaceSpaces: replace(/\s+/g, replaceWith)
transformReplaceSpaces(chars, replaceWith) == ReplaceRuns(chars, Spaces, replaceWith)

\* transformUppercase
transformUppercase(chars) == [i \in 1..Len(chars) |-> Upper(chars[i])]

\* transformRemoveSpaces: replace(/\s+/g, '')
transformRemoveSpaces(chars) == ReplaceRuns(chars, Spaces, <<>>)

\* A call of transformUrlSafe with a separator of at most one character.
\* With the empty separator the pattern of step 4 is '+', which is no
\* regular expression: new RegExp throws.
transformUrlSafeCall(chars, separator) ==
    IF separator = <<>>
    THEN Thrown
    ELSE ReturnedChars(transformUrlSafe(chars, separator[1]))

\* new RegExp(pattern, 'g') for a pattern of one character: a quantifier or
\* an open group alone does not compile
PatternCompiles(pattern) == pattern \notin {<<"?">>, <<"(">>, <<"+">>, <<"*">>}

\* replace(/c/g, with) for a literal character c
RECURSIVE ReplaceEach(_, _, _)
ReplaceEach(chars, c, with) ==
    IF chars = <<>> THEN <<>>
    ELSE (IF Head(chars) = c THEN with ELSE <<Head(chars)>>)
         \o ReplaceEach(Tail(chars), c, with)

\* transformReplace: without a pattern, and with one that does not compile,
\* the value is returned
transformReplace(chars, transform) ==
    IF transform.pattern = <<>> THEN chars
    ELSE IF ~PatternCompiles(transform.pattern) THEN chars
    ELSE ReplaceEach(chars, transform.pattern[1], transform.with)

\* parts.slice(1).join(':')
RECURSIVE JoinColon(_)
JoinColon(parts) ==
    IF parts = <<>> THEN <<>>
    ELSE IF Len(parts) = 1 THEN parts[1]
    ELSE parts[1] \o <<":">> \o JoinColon(Tail(parts))

\* applyStringTransform on characters
applyStringTransformValue(chars, transform) ==
    LET parameter == JoinColon(transform.parts)
        given == transform.parts # <<>>
    IN  CASE transform.name = "replaceSpaces" ->
                ReturnedChars(transformReplaceSpaces(chars, IF given THEN parameter ELSE <<"-">>))
          [] transform.name = "urlSafe" ->
                transformUrlSafeCall(chars, IF given THEN parameter ELSE <<"-">>)
          [] transform.name = "lowercase" -> ReturnedChars(transformLowercase(chars))
          [] transform.name = "uppercase" -> ReturnedChars(transformUppercase(chars))
          [] transform.name = "removeSpaces" -> ReturnedChars(transformRemoveSpaces(chars))
          [] OTHER -> ReturnedChars(chars)

\* applyObjectTransform on characters; an array has no type property
applyObjectTransformValue(chars, transform) ==
    LET with == IF transform.with # <<>> THEN transform.with ELSE <<"-">>
    IN  IF transform.json = "array" \/ transform.typeKind # "string"
        THEN ReturnedChars(chars)
        ELSE CASE transform.name = "replaceSpaces" ->
                     ReturnedChars(transformReplaceSpaces(chars, with))
               [] transform.name = "urlSafe" -> transformUrlSafeCall(chars, with)
               [] transform.name = "lowercase" -> ReturnedChars(transformLowercase(chars))
               [] transform.name = "uppercase" -> ReturnedChars(transformUppercase(chars))
               [] transform.name = "removeSpaces" -> ReturnedChars(transformRemoveSpaces(chars))
               [] transform.name = "replace" -> ReturnedChars(transformReplace(chars, transform))
               [] OTHER -> ReturnedChars(chars)

\* applyTransform on any value: a falsy value is returned as it is; any
\* other value is made a string first; what a transform throws is caught
\* and the string is returned
applyTransformValue(value, transform) ==
    IF Falsy(value) THEN value
    ELSE LET outcome ==
                 IF TypeOf(transform) = "object"
                 THEN applyObjectTransformValue(value.chars, transform)
                 ELSE IF TypeOf(transform) = "string"
                 THEN applyStringTransformValue(value.chars, transform)
                 ELSE ReturnedChars(value.chars)
         IN  IF outcome.threw THEN JsString(value.chars) ELSE JsString(outcome.chars)

\* applyMultipleTransforms, the loop from item i on
RECURSIVE MultipleLoop(_, _, _)
MultipleLoop(result, items, i) ==
    IF i > Len(items) THEN result
    ELSE MultipleLoop(applyTransformValue(result, items[i]), items, i + 1)

\* Variant: the loop runs from the last spec to the first
applyMultipleTransforms_LastFirst(value, transforms) ==
    IF transforms.json # "array" THEN value
    ELSE MultipleLoop(value,
                      [i \in 1..Len(transforms.items) |->
                          transforms.items[Len(transforms.items) + 1 - i]], 1)

\* applyMultipleTransforms
applyMultipleTransforms(value, transforms) ==
    IF transforms.json # "array" THEN value
    ELSE MultipleLoop(value, transforms.items, 1)

\* The specs the engine is called with: string notation with and without a
\* parameter ('urlSafe:' has the empty parameter), object notation, and
\* what is no spec at all
EngineSpecs ==
    {StringSpec(n, <<>>) : n \in supportedTransforms \cup {"unknown"}}
    \cup {StringSpec(n, <<p>>) : n \in {"urlSafe", "replaceSpaces"},
                                 p \in {<<>>, <<"-">>, <<"?">>, <<"a">>}}
    \cup {ObjectSpec(n, w, <<>>) : n \in {"urlSafe", "replaceSpaces", "lowercase", "unknown"},
                                   w \in {<<>>, <<"?">>}}
    \cup {ObjectSpec("replace", w, p) : w \in {<<>>, <<"-">>},
                                        p \in {<<>>, <<"a">>, <<"?">>}}
    \cup {UntypedSpec, NumberTypedSpec, NumberSpec}

\* The specs lists are made of
ChainSpecs ==
    {StringSpec("urlSafe", <<<<"-">>>>), StringSpec("uppercase", <<>>),
     StringSpec("removeSpaces", <<>>), StringSpec("replaceSpaces", <<<<"?">>>>),
     StringSpec("unknown", <<>>), ObjectSpec("replace", <<>>, <<"a">>)}

SpecLists == {ListSpec(items) : items \in UNION {[1..n -> ChainSpecs] : n \in 0..MaxChain}}

\* The transforms maps validation is given: one or two target fields
TransformMaps ==
    UNION {[fields -> EngineSpecs \cup {ListSpec(<<s, t>>) : s, t \in
                                           {StringSpec("urlSafe", <<<<"-">>>>),
                                            StringSpec("uppercase", <<>>)}}] :
              fields \in {{"UrlName"}, {"Title", "UrlName"}}}

\* The latest call: which function, with which arguments, and what came back
NoValidation == [valid |-> TRUE, errors |-> {}]

CallOf(fn, value, transform, result, transforms, validation) ==
    [fn |-> fn, value |-> value, transform |-> transform, result |-> result,
     transforms |-> transforms, validation |-> validation]

NoCall == CallOf("none", JsNull, NumberSpec, JsNull, EmptyObject, NoValidation)

-----------------------------------------------------------------------------
(* What upsert sends for an asset under a configuration with static fields
   and transforms *)

NoAsset == [ID |-> NoValue, name |-> NoValue, language |-> NoValue]

\* The formatted assets upsert is given
PayloadAssets ==
    {[ID |-> "faq-001", name |-> "How to Reset Password?", language |-> "en_US"],
     [ID |-> "faq-002", name |-> "FAQ", language |-> "de"]}

PayloadMapping == [Title |-> "name", UrlName |-> "name"]

\* config.fieldMapping of the effective configuration: any remote field may
\* be a key, the Language field included
PayloadMappings == {PayloadMapping, [Title |-> "name", Language |-> "language"]}

\* config.static of the effective configuration
PayloadStatics == {EmptyObject, [Title |-> "Fixed"], [Channel__c |-> "Web"]}

\* config.transforms of the effective configuration
PayloadTransforms == {EmptyObject, [UrlName |-> "urlSafe:-"], [Title |-> "lowercase"]}

\* The configuration object the job hands to exportBatch: the effective
\* configuration with the job's defaults filled in
PayloadConfigs ==
    [articleType : {DefaultArticleType}, fieldMapping : PayloadMappings,
     dataCategory : DataCategories, publishArticles : {FALSE},
     batchSize : {1}, serviceID : {ServiceID},
     static : PayloadStatics, transforms : PayloadTransforms]

\* Nothing was upserted yet
NoUpsert == [asset |-> NoAsset, sent |-> <<>>]

\* The create and update calls among the calls of an upsert
WriteCalls(calls) == SelectSeq(calls, LAMBDA call : call.op \in {"create", "update"})

-----------------------------------------------------------------------------
(* Initial state *)

V(id, m, st, ext, n) == [id |-> id, master |-> m, status |-> st, ext |-> ext, vnum |-> n]

\* What the remote may hold for asset "a" when the first run starts: nothing,
\* one article in each status, a published article with a Draft on top, or
\* two articles carrying the same external id.
InitialRemotes ==
    { {},
      {V(1, MasterOf(1), "Draft", "a", 1)},
      {V(1, MasterOf(1), "Online", "a", 1)},
      {V(1, MasterOf(1), "Archived", "a", 1)},
      {V(1, MasterOf(1), "Online", "a", 1), V(2, MasterOf(1), "Draft", "a", 2)},
      {V(1, MasterOf(1), "Draft", "a", 1), V(2, MasterOf(2), "Draft", "a", 1)} }

Init ==
    /\ remote \in InitialRemotes
    /\ nextId = Cardinality(remote) + 1
    /\ tokenCache = NoValue
    /\ content = [c \in ContentIds |-> NoMeta]
    /\ config \in Configs
    /\ assets = <<>>
    /\ pc = "idle"
    /\ idx = 0
    /\ batchRes = EmptyBatch
    /\ totals = EmptyTotals
    /\ status = NoValue
    /\ runs = 0
    /\ now = 1
    /\ last = NoObs
    /\ prev = NoSummary
    /\ hist = NoSummary
    /\ exportMode = "full"
    /\ modified = [c \in ContentIds |-> now]
    /\ online = {}
    /\ batches = <<>>
    /\ runLog = LogOff
    /\ synced = {}
    /\ allConfigs = NoConfigs
    /\ siteID = "siteA"
    /\ effectiveConfig = Unresolved
    /\ param = NoParam
    /\ trace = <<>>
    /\ payload = NoUpsert
    /\ recordTypeCache = NoRecordTypes
    /\ applied = NoCall

-----------------------------------------------------------------------------
(* Actions *)

\* execute, steps 1-4: configuration, selection, authentication.
StartRun ==
    /\ pc = "idle"
    /\ runs < MaxRuns
    /\ runs' = runs + 1
    /\ now' = now + 1
    /\ \E on \in SUBSET ContentIds, auth \in Answers :
         LET sel == getContentAssetsFromMultipleFolders(on, content, modified, exportMode)
         IN  /\ online' = on
             /\ IF sel = <<>>
                THEN /\ status' = "OK"
                     /\ pc' = "done"
                     /\ UNCHANGED <<assets, tokenCache>>
                ELSE IF tokenCache = NoValue /\ auth = "err"
                THEN /\ status' = "ERROR"
                     /\ pc' = "done"
                     /\ UNCHANGED <<assets, tokenCache>>
                ELSE /\ status' = NoValue
                     /\ pc' = "export"
                     /\ assets' = sel
                     /\ tokenCache' = "token"
    /\ idx' = 0
    /\ batchRes' = EmptyBatch
    /\ totals' = EmptyTotals
    /\ batches' = <<>>
    /\ runLog' = IF runLog = LogOff THEN LogOff ELSE <<>>
    /\ UNCHANGED siteVars
    /\ UNCHANGED stepVars
    /\ UNCHANGED <<remote, nextId, content, config, last, prev, hist,
                   exportMode, modified, synced>>

\* exportBatch, one loop iteration: upsert the next asset of the batch.
UpsertRecord ==
    /\ pc = "export"
    /\ Len(batchRes.details) < BatchLen
    /\ LET c == assets[idx + 1] IN
       \E o \in Outcomes :
       \E found \in findArticleByExternalId(remote, c, o) :
         /\ Canonical(o, remote, c, found, config, tokenCache)
         /\ LET u == upsertKnowledgeArticle(remote, nextId, formatContentAsset(c),
                                            config, found, o, tokenCache)
                pre == {v \in remote : v.ext = c}
                ob == Obs(c, runs, config.publishArticles, pre, found, u.calls, u.res)
                updatable == ~MappingIsEmpty(mapContentToArticle(formatContentAsset(c),
                                 config.articleType, config.fieldMapping,
                                 config.dataCategory, FALSE))
            IN  /\ remote' = u.remote
                /\ nextId' = u.nextId
                /\ batchRes' = TrackResult(batchRes, c, u.res)
                /\ last' = ob
                /\ prev' = hist
                /\ hist' = Summary(ob, updatable)
    /\ idx' = idx + 1
    /\ UNCHANGED siteVars
    /\ UNCHANGED stepVars
    /\ UNCHANGED <<tokenCache, content, config, assets, pc, totals, status, runs, now,
                   exportMode, modified, online, batches, runLog, synced>>

\* End of a batch: the job's callback writes the sync metadata, then
\* exportToExternalAPI adds the batch to its totals; after the last batch the
\* job derives its Status.
FinishBatch ==
    /\ pc = "export"
    /\ BatchLen > 0
    /\ Len(batchRes.details) = BatchLen
    /\ \E metaOk \in [1..BatchLen -> BOOLEAN] :
         /\ \A i \in 1..BatchLen : ~batchRes.details[i].success => metaOk[i]
         /\ content' = WriteSyncMetadata(content, batchRes.details, metaOk, now)
         /\ runLog' = LogBatch(runLog, batchRes, content, metaOk)
         /\ synced' = synced \cup
                {batchRes.details[i].contentId : i \in
                    {j \in 1..BatchLen : MetaInvoked(batchRes, j) /\ metaOk[j]}}
    /\ totals' = Accumulate(totals, batchRes, BatchLen, totals.totalProcessed \div config.batchSize + 1)
    /\ batches' = Append(batches,
                         Invocation(Slice(assets, Len(batches), config.batchSize), "returned"))
    /\ batchRes' = EmptyBatch
    /\ IF totals'.totalProcessed = Len(assets)
       THEN pc' = "done" /\ status' = FinalStatus(totals')
       ELSE pc' = "export" /\ status' = status
    /\ last' = NoObs
    /\ prev' = NoSummary
    /\ UNCHANGED siteVars
    /\ UNCHANGED stepVars
    /\ UNCHANGED <<remote, nextId, tokenCache, config, assets, idx, runs, now, hist,
                   exportMode, modified, online>>

\* afterStep: the cached token is cleared; the run's objects are gone.
AfterStep ==
    /\ pc = "done"
    /\ pc' = "idle"
    /\ tokenCache' = NoValue
    /\ assets' = <<>>
    /\ idx' = 0
    /\ totals' = EmptyTotals
    /\ status' = NoValue
    /\ online' = {}
    /\ batches' = <<>>
    /\ runLog' = IF runLog = LogOff THEN LogOff ELSE <<>>
    /\ UNCHANGED siteVars
    /\ UNCHANGED stepVars
    /\ UNCHANGED <<remote, nextId, content, config, batchRes, runs, now, last, prev, hist,
                   exportMode, modified, synced>>

\* Someone publishes a draft by hand in the remote, between two runs.
ExternalPublish ==
    /\ pc = "idle"
    /\ runs < MaxRuns
    /\ \E v \in remote :
         /\ v.status = "Draft"
         /\ remote' = RemotePublish(remote, v.id)
         /\ hist' = NoSummary
    /\ UNCHANGED siteVars
    /\ UNCHANGED stepVars
    /\ UNCHANGED <<nextId, tokenCache, content, config, assets, pc, idx,
                   batchRes, totals, status, runs, now, last, prev,
                   exportMode, modified, online, batches, runLog, synced>>

Next == StartRun \/ UpsertRecord \/ FinishBatch \/ AfterStep \/ ExternalPublish

Spec == Init /\ [][Next]_vars

-----------------------------------------------------------------------------
(* The job on its own: selection, batches, sync metadata, run status *)

\* Configurations of the runs followed in detail: drafts only, Title mapped.
RunConfigs == {cfg \in Configs : cfg.fieldMapping = MapTitle /\ ~cfg.publishArticles}

\* Sync metadata of an asset exported at time 1 as version 1.
SyncedBefore ==
    [sfKnowledgeArticleId |-> MasterOf(1), sfKnowledgeVersionId |-> 1,
     sfLastSyncDateTime |-> 1]

\* Nothing was exported yet, or asset "a" was exported once at time 1; the
\* assets were last modified at time 1 or 2.
RunInit ==
    /\ \/ /\ remote = {}
          /\ content = [c \in ContentIds |-> NoMeta]
       \/ /\ remote = {V(1, MasterOf(1), "Draft", "a", 1)}
          /\ content = [c \in ContentIds |-> IF c = "a" THEN SyncedBefore ELSE NoMeta]
    /\ nextId = Cardinality(remote) + 1
    /\ tokenCache = NoValue
    /\ config \in RunConfigs
    /\ assets = <<>>
    /\ pc = "idle"
    /\ idx = 0
    /\ batchRes = EmptyBatch
    /\ totals = EmptyTotals
    /\ status = NoValue
    /\ runs = 0
    /\ now = 2
    /\ last = NoObs
    /\ prev = NoSummary
    /\ hist = NoSummary
    /\ exportMode \in ExportModes
    /\ modified \in [ContentIds -> {1, 2}]
    /\ online = {}
    /\ batches = <<>>
    /\ runLog = <<>>
    /\ synced = {c \in ContentIds : /\ content[c].sfLastSyncDateTime # NoId
                                    /\ modified[c] <= content[c].sfLastSyncDateTime}
    /\ allConfigs = NoConfigs
    /\ siteID = "siteA"
    /\ effectiveConfig = Unresolved
    /\ param = NoParam
    /\ trace = <<>>
    /\ payload = NoUpsert
    /\ recordTypeCache = NoRecordTypes
    /\ applied = NoCall

\* An editor changes an exported asset between two runs: the platform sets
\* its lastModified to the time of the change.
EditContent ==
    /\ pc = "idle"
    /\ runs < MaxRuns
    /\ \E c \in synced :
         /\ now' = now + 1
         /\ modified' = [modified EXCEPT ![c] = now + 1]
         /\ synced' = synced \ {c}
    /\ UNCHANGED siteVars
    /\ UNCHANGED stepVars
    /\ UNCHANGED <<remote, nextId, tokenCache, content, config, assets, pc, idx,
                   batchRes, totals, status, runs, last, prev, hist,
                   exportMode, online, batches, runLog>>

RunNext == StartRun \/ UpsertRecord \/ FinishBatch \/ AfterStep \/ EditContent

RunSpec == RunInit /\ [][RunNext]_vars

-----------------------------------------------------------------------------
(* The job in delta mode with publishing switched on *)

\* Nothing was exported yet; every upsert of the runs tries to publish.
PublishInit ==
    /\ remote = {}
    /\ content = [c \in ContentIds |-> NoMeta]
    /\ nextId = 1
    /\ tokenCache = NoValue
    /\ config \in {cfg \in Configs : cfg.fieldMapping = MapTitle /\ cfg.publishArticles}
    /\ assets = <<>>
    /\ pc = "idle"
    /\ idx = 0
    /\ batchRes = EmptyBatch
    /\ totals = EmptyTotals
    /\ status = NoValue
    /\ runs = 0
    /\ now = 2
    /\ last = NoObs
    /\ prev = NoSummary
    /\ hist = NoSummary
    /\ exportMode = "delta"
    /\ modified \in [ContentIds -> {1, 2}]
    /\ online = {}
    /\ batches = <<>>
    /\ runLog = <<>>
    /\ synced = {}
    /\ allConfigs = NoConfigs
    /\ siteID = "siteA"
    /\ effectiveConfig = Unresolved
    /\ param = NoParam
    /\ trace = <<>>
    /\ payload = NoUpsert
    /\ recordTypeCache = NoRecordTypes
    /\ applied = NoCall

PublishSpec == PublishInit /\ [][RunNext]_vars

-----------------------------------------------------------------------------
(* exportToExternalAPI on its own, with any batch function *)

\* How an invocation of the batch function may end.
BatchOutcomes == {"returned", "failed", "threw"}

\* The lists exported: records 1..n.
RecordLists == {[i \in 1..n |-> i] : n \in 1..MaxRecords}

BatchInit ==
    /\ assets \in RecordLists
    /\ \E b \in 1..MaxBatchSize :
         config = [articleType |-> DefaultArticleType, fieldMapping |-> MapTitle,
                   dataCategory |-> NoValue, publishArticles |-> FALSE,
                   batchSize |-> b, serviceID |-> ServiceID]
    /\ pc = "export"
    /\ totals = EmptyTotals
    /\ batches = <<>>
    /\ remote = {}
    /\ nextId = 1
    /\ tokenCache = NoValue
    /\ content = [c \in ContentIds |-> NoMeta]
    /\ idx = 0
    /\ batchRes = EmptyBatch
    /\ status = NoValue
    /\ runs = 0
    /\ now = 1
    /\ last = NoObs
    /\ prev = NoSummary
    /\ hist = NoSummary
    /\ exportMode = "full"
    /\ modified = [c \in ContentIds |-> now]
    /\ online = {}
    /\ runLog = LogOff
    /\ synced = {}
    /\ allConfigs = NoConfigs
    /\ siteID = "siteA"
    /\ effectiveConfig = Unresolved
    /\ param = NoParam
    /\ trace = <<>>
    /\ payload = NoUpsert
    /\ recordTypeCache = NoRecordTypes
    /\ applied = NoCall

\* exportToExternalAPI, one loop iteration: the batch function is invoked on
\* the next slice and returns a result (with or without success, with some
\* successCount) or throws.
InvokeBatch ==
    /\ pc = "export"
    /\ Len(batches) < TotalBatches(Len(assets), config.batchSize)
    /\ LET i == Len(batches)
           batch == Slice(assets, i, config.batchSize)
       IN  \E outcome \in BatchOutcomes, successCount \in 0..Len(batch) :
             /\ outcome # "returned" => successCount = 0
             /\ totals' =
                  IF outcome = "threw"
                  THEN AccumulateThrown(totals, Len(batch), i + 1)
                  ELSE Accumulate(totals,
                                  [EmptyBatch EXCEPT !.success = (outcome = "returned"),
                                                     !.successCount = successCount],
                                  Len(batch), i + 1)
             /\ batches' = Append(batches, Invocation(batch, outcome))
             /\ pc' = IF i + 1 < TotalBatches(Len(assets), config.batchSize)
                      THEN "export" ELSE "done"
    /\ UNCHANGED siteVars
    /\ UNCHANGED stepVars
    /\ UNCHANGED <<remote, nextId, tokenCache, content, config, assets, idx, batchRes,
                   status, runs, now, last, prev, hist, exportMode, modified, online,
                   runLog, synced>>

BatchNext == InvokeBatch

BatchSpec == BatchInit /\ [][BatchNext]_vars

-----------------------------------------------------------------------------
(* The configuration resolution on its own *)

ConfigInit ==
    /\ allConfigs \in SiteConfigurations
    /\ siteID \in SiteIDs
    /\ effectiveConfig = Unresolved
    /\ param = NoParam
    /\ trace = <<>>
    /\ payload = NoUpsert
    /\ recordTypeCache = NoRecordTypes
    /\ applied = NoCall
    /\ remote = {}
    /\ nextId = 1
    /\ tokenCache = NoValue
    /\ content = [c \in ContentIds |-> NoMeta]
    /\ config \in {cfg \in RunConfigs : cfg.batchSize = 1}
    /\ assets = <<>>
    /\ pc = "idle"
    /\ idx = 0
    /\ batchRes = EmptyBatch
    /\ totals = EmptyTotals
    /\ status = NoValue
    /\ runs = 0
    /\ now = 1
    /\ last = NoObs
    /\ prev = NoSummary
    /\ hist = NoSummary
    /\ exportMode = "full"
    /\ modified = [c \in ContentIds |-> now]
    /\ online = {}
    /\ batches = <<>>
    /\ runLog = LogOff
    /\ synced = {}

\* execute, step 1: the job asks for the configuration of the current site
ResolveConfig ==
    /\ ~effectiveConfig.resolved
    /\ effectiveConfig' = [resolved |-> TRUE,
                           config |-> getSiteConfiguration(allConfigs, siteID)]
    /\ UNCHANGED <<allConfigs, siteID>>
    /\ UNCHANGED stepVars
    /\ UNCHANGED <<remote, nextId, tokenCache, content, config, assets, pc, idx,
                   batchRes, totals, status, runs, now, last, prev, hist,
                   exportMode, modified, online, batches, runLog, synced>>

ConfigNext == ResolveConfig

ConfigSpec == ConfigInit /\ [][ConfigNext]_vars

-----------------------------------------------------------------------------
(* The token cache on its own, with any caller in the request *)

AuthInit ==
    /\ tokenCache = NoAuth
    /\ trace = <<>>
    /\ param = NoParam
    /\ payload = NoUpsert
    /\ recordTypeCache = NoRecordTypes
    /\ applied = NoCall
    /\ allConfigs = NoConfigs
    /\ siteID = "siteA"
    /\ effectiveConfig = Unresolved
    /\ remote = {}
    /\ nextId = 1
    /\ content = [c \in ContentIds |-> NoMeta]
    /\ config \in {cfg \in RunConfigs : cfg.batchSize = 1}
    /\ assets = <<>>
    /\ pc = "export"
    /\ idx = 0
    /\ batchRes = EmptyBatch
    /\ totals = EmptyTotals
    /\ status = NoValue
    /\ runs = 0
    /\ now = 1
    /\ last = NoObs
    /\ prev = NoSummary
    /\ hist = NoSummary
    /\ exportMode = "full"
    /\ modified = [c \in ContentIds |-> now]
    /\ online = {}
    /\ batches = <<>>
    /\ runLog = LogOff
    /\ synced = {}

\* What the actions of this specification leave alone
authFrame ==
    <<remote, nextId, content, config, assets, pc, idx, batchRes, totals, status,
      runs, now, last, prev, hist, exportMode, modified, online, batches, runLog,
      synced, param, payload, recordTypeCache, applied>>

\* Some caller (the job, upsert, the record-type or the tooling helper) asks
\* for the token of a service
CallGetAccessToken ==
    /\ Len(trace) < MaxCalls
    /\ \E s \in ServiceIDs, answer \in Answers :
         LET g == getAccessToken(tokenCache, s, answer, TokensIssued(trace) + 1)
         IN  /\ tokenCache' = g.cache
             /\ trace' = Append(trace, TokenEvent(s, g))
    /\ UNCHANGED siteVars
    /\ UNCHANGED authFrame

\* A helper calls the remote with the token it was given; whatever the
\* answer, the helper returns a result and leaves the cache as it is
CallRemote ==
    /\ Len(trace) < MaxCalls
    /\ tokenCache.success
    /\ \E answer \in RemoteAnswers :
         trace' = Append(trace, RemoteEvent("remote", tokenCache, answer))
    /\ UNCHANGED tokenCache
    /\ UNCHANGED siteVars
    /\ UNCHANGED authFrame

\* afterStep, at the end of a run
CallClearCachedToken ==
    /\ Len(trace) < MaxCalls
    /\ tokenCache' = clearCachedToken(tokenCache)
    /\ trace' = Append(trace, ClearEvent)
    /\ UNCHANGED siteVars
    /\ UNCHANGED authFrame

AuthNext == CallGetAccessToken \/ CallRemote \/ CallClearCachedToken

AuthSpec == AuthInit /\ [][AuthNext]_vars

-----------------------------------------------------------------------------
(* One run of the step, from its parameters to afterStep, with its calls *)

\* What the selection of the run may return
StepSelections == {<<>>, <<"a">>, <<"a", "b">>}

StepInit ==
    /\ param \in StepParams
    /\ siteID \in SiteIDs
    /\ tokenCache = NoAuth
    /\ trace = <<>>
    /\ pc = "idle"
    /\ allConfigs = NoConfigs
    /\ effectiveConfig = Unresolved
    /\ payload = NoUpsert
    /\ recordTypeCache = NoRecordTypes
    /\ applied = NoCall
    /\ remote = {}
    /\ nextId = 1
    /\ content = [c \in ContentIds |-> NoMeta]
    /\ config \in {cfg \in RunConfigs : cfg.batchSize = 2}
    /\ assets = <<>>
    /\ idx = 0
    /\ batchRes = EmptyBatch
    /\ totals = EmptyTotals
    /\ status = NoValue
    /\ runs = 0
    /\ now = 1
    /\ last = NoObs
    /\ prev = NoSummary
    /\ hist = NoSummary
    /\ exportMode = "full"
    /\ modified = [c \in ContentIds |-> now]
    /\ online = {}
    /\ batches = <<>>
    /\ runLog = LogOff
    /\ synced = {}

\* What the actions of this specification leave alone
stepFrame ==
    <<remote, nextId, content, config, runs, now, last, prev, hist, exportMode,
      modified, online, batches, runLog, synced, param, payload, siteID,
      recordTypeCache, applied>>

\* execute, steps 1 and 2: the parameters are checked, the configuration is
\* parsed, resolved and validated; any error returns Status ERROR
StepConfigure ==
    /\ pc = "idle"
    /\ \E oauthValid \in BOOLEAN :
         LET r == Configure(param, siteID, oauthValid)
         IN  IF r.error # NoValue
             THEN /\ status' = "ERROR"
                  /\ pc' = "done"
                  /\ UNCHANGED <<allConfigs, effectiveConfig>>
             ELSE /\ status' = status
                  /\ pc' = "select"
                  /\ allConfigs' = parseSiteConfigurations(param).value
                  /\ effectiveConfig' = [resolved |-> TRUE, config |-> r.config]
    /\ UNCHANGED <<tokenCache, trace, assets, idx, batchRes, totals>>
    /\ UNCHANGED stepFrame

\* execute, step 3: the selection; nothing to export returns Status OK
StepSelect ==
    /\ pc = "select"
    /\ \E sel \in StepSelections :
         IF sel = <<>>
         THEN status' = "OK" /\ pc' = "done" /\ assets' = assets
         ELSE status' = status /\ pc' = "auth" /\ assets' = sel
    /\ UNCHANGED <<tokenCache, trace, idx, batchRes, totals, allConfigs, effectiveConfig>>
    /\ UNCHANGED stepFrame

\* Variant: the step goes on without a token
AuthenticationStep_GoesOn(authResult) == [pc |-> "fields", status |-> NoValue]

\* execute, step 4: where the step goes with the authResult it got
AuthenticationStep(authResult) ==
    IF authResult.success
    THEN [pc |-> "fields", status |-> NoValue]
    ELSE [pc |-> "done", status |-> "ERROR"]

\* execute, step 4: the token; a failure returns Status ERROR
StepAuthenticate ==
    /\ pc = "auth"
    /\ \E answer \in Answers :
         LET g == getAccessToken(tokenCache, param.serviceID, answer,
                                 TokensIssued(trace) + 1)
         IN  /\ tokenCache' = g.cache
             /\ trace' = Append(trace, TokenEvent(param.serviceID, g))
             /\ pc' = AuthenticationStep(g.result).pc
             /\ status' = AuthenticationStep(g.result).status
    /\ UNCHANGED <<assets, idx, batchRes, totals, allConfigs, effectiveConfig>>
    /\ UNCHANGED stepFrame

\* execute, steps 4.3 and 4.5: the tooling helper asks for the token and
\* checks the mapped fields in the remote; with autoCreateFields a field
\* that is not ready returns Status ERROR
StepEnsureFields ==
    /\ pc = "fields"
    /\ \E answer \in RemoteAnswers, autoCreateFields \in BOOLEAN :
         LET g == getAccessToken(tokenCache, param.serviceID, "ok",
                                 TokensIssued(trace) + 1)
         IN  /\ tokenCache' = g.cache
             /\ trace' = trace \o <<TokenEvent(param.serviceID, g),
                                    RemoteEvent("tooling", g.result, answer)>>
             /\ IF answer # "ok" /\ autoCreateFields
                THEN status' = "ERROR" /\ pc' = "done"
                ELSE status' = status /\ pc' = "export"
    /\ UNCHANGED <<assets, idx, batchRes, totals, allConfigs, effectiveConfig>>
    /\ UNCHANGED stepFrame

\* exportBatch, one loop iteration: upsert asks for the token, looks the
\* article up and, finding none, creates it
StepUpsert ==
    /\ pc = "export"
    /\ idx < Len(assets)
    /\ \E auth \in Answers, lookup \in RemoteAnswers, write \in RemoteAnswers :
         LET g == getAccessToken(tokenCache, param.serviceID, auth,
                                 TokensIssued(trace) + 1)
             c == assets[idx + 1]
         IN  /\ tokenCache.success => auth = "ok"
             /\ ~g.result.success => lookup = "ok" /\ write = "ok"
             /\ tokenCache' = g.cache
             /\ trace' = trace \o <<TokenEvent(param.serviceID, g)>> \o
                    (IF g.result.success
                     THEN <<RemoteEvent("lookup", g.result, lookup),
                            RemoteEvent("write", g.result, write)>>
                     ELSE <<>>)
             /\ batchRes' = TrackResult(batchRes, c,
                    IF ~g.result.success
                    THEN Failure("Authentication failed: ", NoValue)
                    ELSE IF write = "ok"
                    THEN Result(TRUE, MasterOf(idx + 1), idx + 1, "create", "draft",
                                NoValue, NoValue)
                    ELSE Failure("Create failed", "create"))
    /\ idx' = idx + 1
    /\ UNCHANGED <<assets, pc, status, totals, allConfigs, effectiveConfig>>
    /\ UNCHANGED stepFrame

\* End of the batch and of execute: the callback writes the sync metadata of
\* the successful details, the totals are added up, the Status is returned
StepReturn ==
    /\ pc = "export"
    /\ idx = Len(assets)
    /\ trace' = trace \o
           [i \in 1..Cardinality({j \in 1..Len(batchRes.details) : MetaInvoked(batchRes, j)}) |->
               RemoteEvent("meta", NoAuth, "ok")]
    /\ totals' = Accumulate(totals, batchRes, Len(assets), 1)
    /\ status' = FinalStatus(totals')
    /\ pc' = "done"
    /\ UNCHANGED <<tokenCache, assets, idx, batchRes, allConfigs, effectiveConfig>>
    /\ UNCHANGED stepFrame

\* afterStep
StepAfter ==
    /\ pc = "done"
    /\ pc' = "ended"
    /\ tokenCache' = clearCachedToken(tokenCache)
    /\ trace' = Append(trace, ClearEvent)
    /\ UNCHANGED <<assets, idx, batchRes, totals, status, allConfigs, effectiveConfig>>
    /\ UNCHANGED stepFrame

StepNext ==
    \/ StepConfigure
    \/ StepSelect
    \/ StepAuthenticate
    \/ StepEnsureFields
    \/ StepUpsert
    \/ StepReturn
    \/ StepAfter

StepSpec == StepInit /\ [][StepNext]_vars

-----------------------------------------------------------------------------
(* One upsert under a configuration with static fields and transforms *)

PayloadInit ==
    /\ remote \in {{}} \cup
          {{V(1, MasterOf(1), st, asset.ID, 1)} :
              st \in {"Draft", "Online"}, asset \in PayloadAssets}
    /\ nextId = Cardinality(remote) + 1
    /\ config \in PayloadConfigs
    /\ tokenCache = "token"
    /\ payload = NoUpsert
    /\ recordTypeCache = NoRecordTypes
    /\ applied = NoCall
    /\ pc = "export"
    /\ param = NoParam
    /\ trace = <<>>
    /\ allConfigs = NoConfigs
    /\ siteID = "siteA"
    /\ effectiveConfig = Unresolved
    /\ content = [c \in ContentIds |-> NoMeta]
    /\ assets = <<>>
    /\ idx = 0
    /\ batchRes = EmptyBatch
    /\ totals = EmptyTotals
    /\ status = NoValue
    /\ runs = 0
    /\ now = 1
    /\ last = NoObs
    /\ prev = NoSummary
    /\ hist = NoSummary
    /\ exportMode = "full"
    /\ modified = [c \in ContentIds |-> now]
    /\ online = {}
    /\ batches = <<>>
    /\ runLog = LogOff
    /\ synced = {}

\* exportBatch hands one asset and the configuration to upsertKnowledgeArticle
UpsertOnce ==
    /\ payload = NoUpsert
    /\ \E asset \in PayloadAssets, o \in Outcomes :
       \E found \in findArticleByExternalId(remote, asset.ID, o) :
         /\ Canonical(o, remote, asset.ID, found, config, tokenCache)
         /\ LET u == upsertKnowledgeArticle(remote, nextId, asset, config, found, o,
                                            tokenCache)
            IN  /\ remote' = u.remote
                /\ nextId' = u.nextId
                /\ payload' = [asset |-> asset, sent |-> WriteCalls(u.calls)]
    /\ UNCHANGED siteVars
    /\ UNCHANGED <<tokenCache, content, config, assets, pc, idx, batchRes, totals,
                   status, runs, now, last, prev, hist, exportMode, modified, online,
                   batches, runLog, synced, param, trace, recordTypeCache, applied>>

PayloadNext == UpsertOnce

PayloadSpec == PayloadInit /\ [][PayloadNext]_vars

-----------------------------------------------------------------------------
(* The two caches over successive runs of the step *)

CacheInit ==
    /\ tokenCache = NoAuth
    /\ recordTypeCache = NoRecordTypes
    /\ applied = NoCall
    /\ trace = <<>>
    /\ pc = "idle"
    /\ runs = 0
    /\ param = [NoParam EXCEPT !.serviceID = ServiceID]
    /\ payload = NoUpsert
    /\ allConfigs = NoConfigs
    /\ siteID = "siteA"
    /\ effectiveConfig = Unresolved
    /\ remote = {}
    /\ nextId = 1
    /\ content = [c \in ContentIds |-> NoMeta]
    /\ config \in {cfg \in RunConfigs : cfg.batchSize = 1}
    /\ assets = <<>>
    /\ idx = 0
    /\ batchRes = EmptyBatch
    /\ totals = EmptyTotals
    /\ status = NoValue
    /\ now = 1
    /\ last = NoObs
    /\ prev = NoSummary
    /\ hist = NoSummary
    /\ exportMode = "full"
    /\ modified = [c \in ContentIds |-> now]
    /\ online = {}
    /\ batches = <<>>
    /\ runLog = LogOff
    /\ synced = {}

\* What the actions of this specification leave alone
cacheFrame ==
    <<remote, nextId, content, config, assets, idx, batchRes, totals, status,
      now, last, prev, hist, exportMode, modified, online, batches, runLog,
      synced, param, payload, applied>>

\* The platform starts a run of the step.  The step clears nothing at its
\* start: the token slot is what the run before left in it, and the
\* record-type module variable is either the one of the run before (the
\* script module is still loaded) or a new one (the module is loaded anew).
CacheBeforeStep ==
    /\ pc = "idle"
    /\ runs < MaxRuns
    /\ Len(trace) < MaxCacheCalls
    /\ pc' = "run"
    /\ runs' = runs + 1
    /\ trace' = Append(trace, RunEvent)
    /\ \E reloaded \in BOOLEAN :
         recordTypeCache' = IF reloaded THEN NoRecordTypes ELSE recordTypeCache
    /\ UNCHANGED tokenCache
    /\ UNCHANGED siteVars
    /\ UNCHANGED cacheFrame

\* execute, step 4: the job asks for the token
CacheGetAccessToken ==
    /\ pc = "run"
    /\ Len(trace) < MaxCacheCalls
    /\ \E answer \in Answers :
         LET g == getAccessToken(tokenCache, param.serviceID, answer,
                                 TokensIssued(trace) + 1)
         IN  /\ tokenCache' = g.cache
             /\ trace' = Append(trace, TokenEvent(param.serviceID, g))
    /\ UNCHANGED <<pc, runs, recordTypeCache>>
    /\ UNCHANGED siteVars
    /\ UNCHANGED cacheFrame

\* execute, step 4.3, or any other caller holding a token: the record type
\* of a configuration is looked up
CacheGetRecordTypeId ==
    /\ pc = "run"
    /\ Len(trace) < MaxCacheCalls
    /\ tokenCache.success
    /\ \E t \in ArticleTypes, n \in RecordTypeNames, answer \in RecordTypeAnswers :
         LET r == getRecordTypeId(recordTypeCache, n, t, answer)
         IN  /\ recordTypeCache' = r.cache
             /\ trace' = Append(trace, RecordTypeEvent(CacheKeyOf(t, n), r))
    /\ UNCHANGED <<pc, runs, tokenCache>>
    /\ UNCHANGED siteVars
    /\ UNCHANGED cacheFrame

\* afterStep: the token slot is cleared; the record-type helper is not
\* called
CacheAfterStep ==
    /\ pc = "run"
    /\ pc' = "idle"
    /\ tokenCache' = clearCachedToken(tokenCache)
    /\ UNCHANGED <<trace, runs, recordTypeCache>>
    /\ UNCHANGED siteVars
    /\ UNCHANGED cacheFrame

CacheNext ==
    \/ CacheBeforeStep
    \/ CacheGetAccessToken
    \/ CacheGetRecordTypeId
    \/ CacheAfterStep

CacheSpec == CacheInit /\ [][CacheNext]_vars

-----------------------------------------------------------------------------
(* The transform engine and the validation of transforms, one call each *)

EngineInit ==
    /\ applied = NoCall
    /\ tokenCache = NoAuth
    /\ recordTypeCache = NoRecordTypes
    /\ trace = <<>>
    /\ pc = "idle"
    /\ runs = 0
    /\ param = NoParam
    /\ payload = NoUpsert
    /\ allConfigs = NoConfigs
    /\ siteID = "siteA"
    /\ effectiveConfig = Unresolved
    /\ remote = {}
    /\ nextId = 1
    /\ content = [c \in ContentIds |-> NoMeta]
    /\ config \in {cfg \in RunConfigs : cfg.batchSize = 1}
    /\ assets = <<>>
    /\ idx = 0
    /\ batchRes = EmptyBatch
    /\ totals = EmptyTotals
    /\ status = NoValue
    /\ now = 1
    /\ last = NoObs
    /\ prev = NoSummary
    /\ hist = NoSummary
    /\ exportMode = "full"
    /\ modified = [c \in ContentIds |-> now]
    /\ online = {}
    /\ batches = <<>>
    /\ runLog = LogOff
    /\ synced = {}

\* What the actions of this specification leave alone
engineFrame ==
    <<remote, nextId, tokenCache, content, config, assets, pc, idx, batchRes, totals,
      status, runs, now, last, prev, hist, exportMode, modified, online, batches,
      runLog, synced, param, trace, payload, recordTypeCache>>

\* Some caller applies one spec to a value
ApplyTransform ==
    /\ applied = NoCall
    /\ \E value \in Values, transform \in EngineSpecs :
         applied' = CallOf("applyTransform", value, transform,
                           applyTransformValue(value, transform),
                           EmptyObject, NoValidation)
    /\ UNCHANGED siteVars
    /\ UNCHANGED engineFrame

\* Some caller applies a list of specs to a value
ApplyMultipleTransforms ==
    /\ applied = NoCall
    /\ \E value \in Values, transforms \in SpecLists :
         applied' = CallOf("applyMultipleTransforms", value, transforms,
                           applyMultipleTransforms(value, transforms),
                           EmptyObject, NoValidation)
    /\ UNCHANGED siteVars
    /\ UNCHANGED engineFrame

\* The job validates a configuration that carries a transforms map
ValidateTransforms ==
    /\ applied = NoCall
    /\ \E transforms \in TransformMaps :
         applied' = CallOf("validateConfiguration", JsNull, NumberSpec, JsNull,
                           transforms,
                           validateConfiguration([transforms |-> transforms]))
    /\ UNCHANGED siteVars
    /\ UNCHANGED engineFrame

EngineNext == ApplyTransform \/ ApplyMultipleTransforms \/ ValidateTransforms

EngineSpec == EngineInit /\ [][EngineNext]_vars

-----------------------------------------------------------------------------
(* Reading the observation log *)

Upserted == last.c # NoValue

\* Positions of the calls of one kind in the latest upsert
CallsOf(op) == {i \in 1..Len(last.calls) : last.calls[i].op = op}

Issued(op) == CallsOf(op) # {}

\* Rows with the asset's external id before the latest upsert, by status
PreWith(st) == {v \in last.pre : v.status = st}

\* A create or update call of the latest upsert that failed / succeeded
WriteFailed == \E i \in CallsOf("create") \cup CallsOf("update") : ~last.calls[i].ok
WriteSucceeded == \E i \in CallsOf("create") \cup CallsOf("update") : last.calls[i].ok

\* The queries of the latest upsert's lookup
Queries == CallsOf("queryDraft") \cup CallsOf("queryOnline") \cup CallsOf("queryAll")

\* Every query of the latest upsert's lookup failed with a remote error
LookupFailed ==
    /\ Cardinality(Queries) = 3
    /\ \A i \in Queries : ~last.calls[i].ok

\* Two upserts of the same asset in a row, in draft mode, every remote call
\* of both succeeding
TwoCleanDraftModeUpserts ==
    /\ Upserted
    /\ prev.c = last.c
    /\ ~prev.pub /\ ~last.pub
    /\ prev.clean /\ AllOk(last.calls)

-----------------------------------------------------------------------------
(* Claims *)

\* C1 (as stated): two upserts of the same record in a row, in draft mode and
\* with every remote call succeeding, return the same versionId; the second
\* finds the Draft left by the first and updates it, with no create call and
\* no create-draft-from-published call.
C1_Stated ==
    TwoCleanDraftModeUpserts =>
        /\ last.res.versionId = prev.versionId
        /\ last.found.status = "Draft"
        /\ last.found.id = prev.versionId
        /\ Issued("update")
        /\ ~Issued("create") /\ ~Issued("edit")

\* C1 (amended): the same, for a record whose mapped update payload is not
\* empty and whose external id is carried by at most one article; the second
\* upsert finds the version the first one wrote, which is a
\* Draft unless the first found a version in another status, and then it is
\* that same version.
C1_Idempotent ==
    (TwoCleanDraftModeUpserts /\ prev.oneArticle /\ hist.updatable) =>
        /\ last.res.success
        /\ last.res.versionId = prev.versionId
        /\ last.found.id = prev.versionId
        /\ last.found.status =
              (IF prev.foundStatus \in {"none", "Draft", "Online"}
               THEN "Draft" ELSE prev.foundStatus)
        /\ Cardinality(CallsOf("update")) = 1
        /\ ~Issued("create") /\ ~Issued("edit")

C1_Witness ==
    /\ TwoCleanDraftModeUpserts /\ prev.oneArticle /\ hist.updatable
    /\ prev.foundStatus = "Online"
    /\ last.res.success

\* C2: the lookup asks for a Draft, then an Online version, then any version;
\* it returns the Draft whenever one exists, the Online version only when no
\* Draft exists, another version only when neither exists, and null only when
\* the external id has no version at all.
C2_LookupPriority ==
    Upserted =>
        /\ PreWith("Draft") # {} => last.found \in PreWith("Draft")
        /\ (PreWith("Draft") = {} /\ PreWith("Online") # {}) => last.found \in PreWith("Online")
        /\ (PreWith("Draft") = {} /\ PreWith("Online") = {} /\ last.pre # {})
              => last.found \in last.pre
        /\ last.found = NoVersion => last.pre = {}

\* C3 (as stated): when the version found is Online and every remote call
\* succeeds, the result's versionId differs from the found version's id and
\* its masterId is the found version's masterId.
C3_Stated ==
    (Upserted /\ last.found.status = "Online" /\ AllOk(last.calls)) =>
        /\ last.res.versionId # last.found.id
        /\ last.res.knowledgeArticleId = last.found.master

\* C3 (amended): the same, when the mapped update payload is not empty.
C3_NewDraftFromOnline ==
    (Upserted /\ last.found.status = "Online" /\ AllOk(last.calls) /\ hist.updatable) =>
        /\ last.res.success
        /\ last.res.versionId # last.found.id
        /\ last.res.versionId # NoId
        /\ last.res.knowledgeArticleId = last.found.master

C3_Witness ==
    /\ Upserted /\ last.found.status = "Online" /\ AllOk(last.calls) /\ hist.updatable
    /\ Issued("edit") /\ Issued("update")

\* C4 (as stated): when the lookup finds a Draft, upsert issues exactly one
\* update call, on the found Draft, no create call and no
\* create-draft-from-published call, and the result carries the found Draft's
\* id as versionId and its masterId.
C4_Stated ==
    (Upserted /\ last.found.status = "Draft") =>
        /\ Cardinality(CallsOf("update")) = 1
        /\ \A i \in CallsOf("update") : last.calls[i].target = last.found.id
        /\ ~Issued("create") /\ ~Issued("edit")
        /\ last.res.versionId = last.found.id
        /\ last.res.knowledgeArticleId = last.found.master

\* C4 (amended): when the lookup finds a Draft and the mapped update payload
\* is not empty, upsert issues exactly one update call, on the found Draft,
\* and no create or create-draft-from-published call; when that update
\* succeeds the result carries the found Draft's id and masterId.
C4_DraftUpdatedInPlace ==
    (Upserted /\ last.found.status = "Draft" /\ hist.updatable) =>
        /\ Cardinality(CallsOf("update")) = 1
        /\ \A i \in CallsOf("update") : last.calls[i].target = last.found.id
        /\ ~Issued("create") /\ ~Issued("edit")
        /\ WriteSucceeded =>
              /\ last.res.success
              /\ last.res.versionId = last.found.id
              /\ last.res.knowledgeArticleId = last.found.master

C4_Witness ==
    /\ Upserted /\ last.found.status = "Draft" /\ hist.updatable
    /\ WriteSucceeded
    /\ PreWith("Online") # {}

\* C5: when the lookup finds no version, upsert issues exactly one create call
\* and no update or create-draft-from-published call; in draft mode a
\* successful result has operation create and publishStatus draft.
C5_CreateWhenNotFound ==
    (Upserted /\ last.found = NoVersion) =>
        /\ Cardinality(CallsOf("create")) = 1
        /\ ~Issued("update") /\ ~Issued("edit")
        /\ (~last.pub /\ last.res.success) =>
              /\ last.res.operation = "create"
              /\ last.res.publishStatus = "draft"

C5_Witness ==
    /\ Upserted /\ last.found = NoVersion
    /\ ~last.pub /\ last.res.success

\* C6: upsert never issues create-draft-from-published for a master that has
\* a Draft version with the record's external id, whatever the lookup queries
\* answer.
C6_NoSecondDraft ==
    Upserted =>
        \A i \in CallsOf("edit") :
            ~\E v \in PreWith("Draft") : v.master = last.calls[i].target

\* C7: when the lookup queries fail with a remote error, upsert reports
\* success=false and issues no create call.
C7_LookupFailureFailsRecord ==
    (Upserted /\ LookupFailed) =>
        /\ ~last.res.success
        /\ ~Issued("create")

\* C8: a failed create or update call gives success=false with an error and
\* no publish call, and the export goes on: after the failed write the loop
\* can take its next step, every asset of the batch so far has its detail
\* entry, and the run ends only when every selected asset was processed.
C8_WriteFailureConfined ==
    /\ (Upserted /\ WriteFailed) =>
          /\ ~last.res.success
          /\ last.res.error # NoValue
          /\ ~Issued("publish")
          /\ pc = "export"
          /\ ENABLED UpsertRecord \/ ENABLED FinishBatch
    /\ pc = "export" =>
          /\ Len(batchRes.details) = idx - totals.totalProcessed
          /\ \A i \in 1..Len(batchRes.details) :
                batchRes.details[i].contentId = assets[totals.totalProcessed + i]
    /\ (pc = "done" /\ assets # <<>>) =>
          /\ idx = Len(assets)
          /\ totals.totalProcessed = Len(assets)

\* A batch of two whose first write failed and whose second asset was upserted
C8_Witness ==
    /\ pc = "export"
    /\ Len(batchRes.details) = 2
    /\ ~batchRes.details[1].success
    /\ batchRes.details[1].operation \in {"create", "update_draft"}
    /\ config.publishArticles
    /\ Upserted /\ last.c = assets[2]

\* C9: upsert issues a publish call exactly when publishArticles is set and
\* the create or update call succeeded: at most one, after the write, on the
\* version id the result reports.  In draft mode there is no publish call and
\* every successful result has publishStatus draft.
C9_PublishGating ==
    Upserted =>
        /\ Issued("publish") <=> (last.pub /\ WriteSucceeded)
        /\ Cardinality(CallsOf("publish")) <= 1
        /\ \A i \in CallsOf("publish") :
              /\ \E j \in CallsOf("create") \cup CallsOf("update") : j < i /\ last.calls[j].ok
              /\ last.calls[i].target = last.res.versionId
        /\ ~last.pub => (~Issued("publish") /\ (last.res.success => last.res.publishStatus = "draft"))

C9_Witness ==
    /\ Upserted /\ Issued("publish") /\ Issued("edit")
    /\ last.res.publishStatus = "online"

\* C10: a failed publish after a successful write gives success=true,
\* publishStatus draft, a warning, and the ids of the write; a successful
\* publish gives success=true, publishStatus online and no warning.
C10_PublishOutcome ==
    Upserted =>
        \A i \in CallsOf("publish") :
            /\ last.res.success
            /\ last.res.versionId = last.calls[i].target
            /\ last.res.versionId # NoId
            /\ last.res.knowledgeArticleId # NoId
            /\ IF last.calls[i].ok
               THEN last.res.publishStatus = "online" /\ last.res.warning = NoValue
               ELSE last.res.publishStatus = "draft" /\ last.res.warning # NoValue

C10_Witness ==
    /\ Upserted
    /\ \E i \in CallsOf("publish") : ~last.calls[i].ok
    /\ last.res.warning # NoValue

\* C11: a successful create reports as masterId the master id obtained by
\* re-querying the remote for the created version, never the created version
\* id itself.
C11_MasterIdFromRequery ==
    (Upserted /\ Issued("create") /\ last.res.success) =>
        /\ \E i \in CallsOf("requery") : last.calls[i].ok
        /\ last.res.knowledgeArticleId = MasterOf(last.res.versionId)
        /\ last.res.knowledgeArticleId # last.res.versionId

-----------------------------------------------------------------------------
(* Reading the run log *)

\* The run exported its assets and returned its Status
RunEnded == pc = "done" /\ assets # <<>> /\ Len(runLog) = Len(assets)

\* Positions in the run log of the assets whose upsert succeeded / failed
SucceededRecords == {i \in 1..Len(runLog) : runLog[i].success}
FailedRecords == {i \in 1..Len(runLog) : ~runLog[i].success}

\* C12: at the end of a run, totalSuccess is the number of assets whose upsert
\* reported success=true and totalFailed the number of assets whose upsert
\* reported success=false.
C12_ExactCounts ==
    RunEnded =>
        /\ totals.totalSuccess = Cardinality(SucceededRecords)
        /\ totals.totalFailed = Cardinality(FailedRecords)

\* C13: the run reports total failure (ERROR) when no asset succeeded and at
\* least one failed, partial success when at least one succeeded and at least
\* one failed, and full success only when no asset failed.
C13_StatusReflectsOutcomes ==
    RunEnded =>
        /\ (SucceededRecords = {} /\ FailedRecords # {}) =>
              (status = "ERROR" /\ FinalMessage(totals) = "All exports failed")
        /\ (SucceededRecords # {} /\ FailedRecords # {}) =>
              (status = "OK" /\ FinalMessage(totals) = "Partial success")
        /\ FinalMessage(totals) = "Success" => FailedRecords = {}

-----------------------------------------------------------------------------
(* Reading the log of batch invocations *)

RECURSIVE Concat(_)
\* The slices of a log of invocations, one after the other
Concat(log) ==
    IF log = <<>> THEN <<>> ELSE log[1].slice \o Concat(Tail(log))

RECURSIVE SumLen(_, _)
\* Total length of the slices at the positions P of the log of invocations
SumLen(log, P) ==
    IF P = {} THEN 0
    ELSE LET i == CHOOSE j \in P : TRUE
         IN  Len(log[i].slice) + SumLen(log, P \ {i})

\* Positions of the invocations that threw or returned without success
NotReturned == {i \in 1..Len(batches) : batches[i].outcome # "returned"}

\* 237 records in batches of 50
Sizes237 ==
    LET list == [i \in 1..237 |-> i]
    IN  [i \in 1..TotalBatches(237, 50) |-> Len(Slice(list, i - 1, 50))]

\* C14: exportToExternalAPI invokes the batch function ceil(n/b) times, on
\* contiguous slices in the original order whose concatenation is the input,
\* each of size b except a possibly shorter last one (237 records in batches
\* of 50: 50,50,50,50,37); totalProcessed is n at the end whatever the
\* batches' outcomes.
C14_BatchPartition ==
    LET n == Len(assets)
        b == config.batchSize
        k == Len(batches)
    IN  /\ Sizes237 = <<50, 50, 50, 50, 37>>
        /\ Concat(batches) = SubSeq(assets, 1, totals.totalProcessed)
        /\ \A i \in 1..k :
              /\ Len(batches[i].slice) >= 1
              /\ Len(batches[i].slice) <= b
              /\ i < k => Len(batches[i].slice) = b
        /\ pc = "done" =>
              /\ k * b >= n /\ (k - 1) * b < n
              /\ Concat(batches) = assets
              /\ totals.totalProcessed = n

C14_Witness ==
    /\ pc = "done"
    /\ Len(assets) = MaxRecords
    /\ config.batchSize = 2
    /\ batches[1].outcome = "threw"
    /\ batches[2].outcome = "failed"
    /\ batches[3].outcome = "returned"

\* C15: when the batch function throws on a slice, the whole slice is added
\* to totalFailed and one error entry for that batch is recorded; the slice
\* is not handed to the batch function again, and every later slice is still
\* processed.
C15_ThrownBatchContained ==
    /\ totals.totalFailed = SumLen(batches, NotReturned)
    /\ Len(totals.errors) = Cardinality(NotReturned)
    /\ \A i \in 1..Len(totals.errors) :
          /\ totals.errors[i] \in NotReturned
          /\ \A j \in 1..Len(totals.errors) : i < j => totals.errors[i] < totals.errors[j]
    /\ \A i \in 1..Len(batches) :
          batches[i].slice = Slice(assets, i - 1, config.batchSize)
    /\ pc = "export" => ENABLED InvokeBatch
    /\ pc = "done" => Len(batches) = TotalBatches(Len(assets), config.batchSize)

C15_Witness ==
    /\ pc = "done"
    /\ Len(batches) = 3
    /\ batches[1].outcome = "threw"
    /\ batches[2].outcome = "returned"
    /\ batches[3].outcome = "threw"
    /\ totals.totalSuccess > 0

\* C16: for every asset whose upsert reported success, updateSyncMetadata is
\* invoked exactly once in the run, after the asset's batch was exported,
\* with the masterId and versionId of the upsert result; when it fails the
\* asset is still reported and counted as a success.
C16_MetadataOncePerSuccess ==
    /\ runLog # LogOff
    /\ \A i \in SucceededRecords :
          /\ runLog[i].metaCalls = 1
          /\ runLog[i].metaArticleId = runLog[i].knowledgeArticleId
          /\ runLog[i].metaVersionId = runLog[i].versionId
          /\ runLog[i].c \in {assets[j] : j \in 1..totals.totalProcessed}
    /\ \A i, j \in 1..Len(runLog) : runLog[i].c = runLog[j].c => i = j
    /\ RunEnded =>
          /\ totals.totalSuccess >= Cardinality(SucceededRecords)
          /\ SucceededRecords # {} => status = "OK"

\* A run that ended with an asset exported but its metadata write failed
C16_Witness ==
    /\ RunEnded
    /\ \E i \in SucceededRecords : ~runLog[i].metaOk
    /\ \E i \in SucceededRecords : runLog[i].metaOk

\* C17: the sync metadata of an asset whose upsert reported success=false is
\* the same after the run as before it.
C17_FailedRecordKeepsMetadata ==
    /\ runLog # LogOff
    /\ \A i \in FailedRecords :
          /\ runLog[i].metaCalls = 0
          /\ content[runLog[i].c] = runLog[i].before

\* A run that ended with a failed upsert of an asset exported before
C17_Witness ==
    /\ RunEnded
    /\ \E i \in FailedRecords : runLog[i].before # NoMeta

-----------------------------------------------------------------------------
(* Reading the selection *)

\* The run has just selected its assets: nothing was exported yet
JustSelected == pc = "export" /\ idx = 0 /\ batches = <<>>

\* The run found nothing to export
NothingSelected == pc = "done" /\ status = "OK" /\ assets = <<>>

SelectedAssets == {assets[i] : i \in 1..Len(assets)}

\* C18: in delta mode an online asset is selected exactly when it has no
\* last sync time or its lastModified is strictly later than its last sync
\* time; in full mode every online asset is selected; an asset that is not
\* online is selected in neither mode.
C18_DeltaFilter ==
    (JustSelected \/ NothingSelected) =>
        \A c \in ContentIds :
            c \in SelectedAssets <=>
                /\ c \in online
                /\ \/ exportMode = "full"
                   \/ content[c].sfLastSyncDateTime = NoId
                   \/ modified[c] > content[c].sfLastSyncDateTime

\* A delta selection that leaves out an online asset modified exactly at its
\* last sync time and takes one never exported
C18_Witness ==
    /\ JustSelected
    /\ exportMode = "delta"
    /\ online = ContentIds
    /\ modified["a"] = content["a"].sfLastSyncDateTime
    /\ assets = <<"b">>

\* C19: an asset whose sync metadata a run has written, and that nobody
\* edited since, has a last sync time that is not earlier than its
\* lastModified, and the next delta selection does not include it.
C19_NoResyncWithoutEdit ==
    /\ \A c \in synced :
          /\ content[c].sfLastSyncDateTime # NoId
          /\ content[c].sfLastSyncDateTime >= modified[c]
    /\ (JustSelected /\ exportMode = "delta") => SelectedAssets \cap synced = {}

\* The second run, in delta mode, leaves out the asset the first run exported
C19_Witness ==
    /\ JustSelected
    /\ runs = 2
    /\ exportMode = "delta"
    /\ "a" \in synced /\ "a" \in online
    /\ content["a"].sfLastSyncDateTime > 2
    /\ assets = <<"b">>

-----------------------------------------------------------------------------
(* Reading the resolved configuration *)

Resolved == effectiveConfig.resolved

HasSiteBlock == siteID \in DOMAIN allConfigs

StaticOf(block) == IF "static" \in DOMAIN block THEN block.static ELSE EmptyObject

\* The block of the site asked for, empty when there is none
SiteBlock == IF HasSiteBlock THEN allConfigs[siteID] ELSE EmptyObject

\* C21: the resolved static map has exactly the fields of the default's and
\* of the site's static map, with the site's value for every field of the
\* site's map and the default's value for every field only the default's
\* map has.
C21_StaticRule ==
    Resolved =>
        LET res == StaticOf(effectiveConfig.config)
            def == StaticOf(DefaultsOf(allConfigs))
            site == StaticOf(SiteBlock)
        IN  /\ DOMAIN res = DOMAIN def \cup DOMAIN site
            /\ \A k \in DOMAIN site : res[k] = site[k]
            /\ \A k \in DOMAIN def \ DOMAIN site : res[k] = def[k]

\* Both static maps carry p with different values and only the default's
\* carries q
C21_Witness ==
    /\ Resolved
    /\ HasSiteBlock
    /\ DOMAIN StaticOf(SiteBlock) = {"p"}
    /\ DOMAIN StaticOf(DefaultsOf(allConfigs)) = {"p", "q"}
    /\ StaticOf(SiteBlock).p # StaticOf(DefaultsOf(allConfigs)).p
    /\ StaticOf(effectiveConfig.config).p = StaticOf(SiteBlock).p
    /\ StaticOf(effectiveConfig.config).q = StaticOf(DefaultsOf(allConfigs)).q

-----------------------------------------------------------------------------
(* Reading the log of calls *)

\* The run has returned
Returned == pc \in {"done", "ended"}

\* The log holds no token request, no remote call and no sync-metadata
\* write from position i on (afterStep's clearCachedToken is none of them)
NoCallFrom(i) == \A j \in i..Len(trace) : trace[j].op = "clearCachedToken"

\* The configuration the step resolves from its parameter
StepEffectiveConfig == getSiteConfiguration(param.configs, siteID)

\* The SiteConfigurations parameter is missing, is not a JSON object, or
\* resolves to a configuration that fails validation
ConfigurationError ==
    \/ param.kind \in {"missing", "malformed", "scalar", "array"}
    \/ ~validateConfiguration(StepEffectiveConfig).valid

\* C22: a run whose SiteConfigurations parameter is missing, is not
\* parseable as a JSON object, or resolves to a configuration that fails
\* validation returns ERROR without any token request, remote call or
\* sync-metadata write.
C22_ConfigErrorsFailFast ==
    ConfigurationError =>
        /\ pc \in {"idle", "done", "ended"}
        /\ Returned => status = "ERROR"
        /\ NoCallFrom(1)

\* C23: when the token request of the authentication step fails, the run
\* returns ERROR and issues no lookup, create, update or publish call and no
\* sync-metadata write.
C23_AuthFailureAborts ==
    (Len(trace) >= 1 /\ trace[1].op = "getAccessToken" /\ ~trace[1].result.success) =>
        /\ Returned
        /\ status = "ERROR"
        /\ NoCallFrom(2)

\* A run with assets to export whose token request failed, after afterStep
C23_Witness ==
    /\ pc = "ended"
    /\ assets # <<>>
    /\ Len(trace) = 2
    /\ trace[1].op = "getAccessToken" /\ trace[1].oauth /\ ~trace[1].result.success
    /\ status = "ERROR"
    /\ idx = 0

\* C29: validateConfiguration reports valid=false with a batchSize error
\* exactly when the batchSize of the configuration is not an integer within
\* 1..500.
C29_BatchSizeValidation ==
    (pc # "idle" /\ param.kind = "object" /\ "batchSize" \in DOMAIN StepEffectiveConfig) =>
        LET v == StepEffectiveConfig.batchSize
            res == validateConfiguration(StepEffectiveConfig)
            accepted == /\ IsInteger(v)
                        /\ v.n >= MinBatchSizeAllowed * v.d
                        /\ v.n <= MaxBatchSizeAllowed * v.d
        IN  /\ ~accepted => /\ ~res.valid
                            /\ BatchSizeError \in res.errors
                            /\ ~effectiveConfig.resolved
            /\ accepted => BatchSizeError \notin res.errors

\* Positions of the log
Positions == 1..Len(trace)

IsTokenCall(i) == trace[i].op = "getAccessToken"

\* No clearCachedToken, that is no end of a run, from position i to j
SameRun(i, j) == \A k \in i..j : trace[k].op # "clearCachedToken"

\* j is the first getAccessToken after position i
NextTokenCall(i, j) ==
    /\ i < j
    /\ IsTokenCall(j)
    /\ \A k \in (i + 1)..(j - 1) : ~IsTokenCall(k)

\* C24: within one run, every getAccessToken after a successful one sends
\* nothing to the OAuth endpoint and returns the same token and instance
\* URL; a failed getAccessToken caches nothing, so the next one calls the
\* OAuth endpoint again.
C24_TokenOncePerRun ==
    \A i \in Positions, j \in Positions :
        /\ ( /\ i < j
             /\ IsTokenCall(i) /\ IsTokenCall(j)
             /\ trace[i].service = trace[j].service
             /\ trace[i].result.success
             /\ SameRun(i, j) )
           => ~trace[j].oauth /\ trace[j].result = trace[i].result
        /\ ( /\ IsTokenCall(i)
             /\ ~trace[i].result.success
             /\ NextTokenCall(i, j) )
           => trace[j].oauth

\* A failed request, a successful one, and two calls served from the cache
C24_Witness ==
    /\ Len(trace) = 4
    /\ \A i \in Positions : IsTokenCall(i) /\ trace[i].service = ServiceID
    /\ trace[1].oauth /\ ~trace[1].result.success
    /\ trace[2].oauth /\ trace[2].result.success
    /\ ~trace[3].oauth /\ trace[3].result = trace[2].result
    /\ ~trace[4].oauth /\ trace[4].result = trace[2].result

\* C25: after a remote call that failed with 401, the next getAccessToken of
\* the run requests a fresh token from the OAuth endpoint.
C25_InvalidationOn401 ==
    \A i \in Positions, j \in Positions :
        ( /\ trace[i].op \notin {"getAccessToken", "clearCachedToken", "meta"}
          /\ trace[i].answer = "401"
          /\ NextTokenCall(i, j)
          /\ SameRun(i, j) )
        => trace[j].oauth

\* C26: a successful getAccessToken for a service returns a token acquired
\* for that service.
C26_CacheKeyedByService ==
    \A j \in Positions :
        (IsTokenCall(j) /\ trace[j].result.success)
        => trace[j].result.instanceUrl = InstanceUrl(trace[j].service)

-----------------------------------------------------------------------------
(* Reading what upsert sent *)

\* The article data of the create and update calls of the upsert
SentBodies == {payload.sent[i].body : i \in 1..Len(payload.sent)}

\* C27: every payload upsert sends carries every field of the
\* configuration's static map with its static value, also for a field the
\* mapping fills.
C27_StaticFieldsWin ==
    \A body \in SentBodies :
        \A k \in DOMAIN config.static :
            k \in DOMAIN body /\ body[k] = config.static[k]

\* C28: every mapped field that has a transform is sent with its
\* transformed value; with mapping {Title: name, UrlName: name} and
\* transform {UrlName: 'urlSafe:-'} the asset named 'How to Reset Password?'
\* is sent with UrlName 'how-to-reset-password'.
C28_TransformsReachPayload ==
    \A body \in SentBodies :
        \A f \in DOMAIN config.fieldMapping \cap DOMAIN config.transforms :
            f \in DOMAIN body =>
                body[f] = applyTransform(
                              getNestedProperty(payload.asset, config.fieldMapping[f]),
                              config.transforms[f])

-----------------------------------------------------------------------------
(* Reading the calls of the Online path *)

\* Ids of the versions the remote held for the asset before the latest upsert
PreIds == {v.id : v \in last.pre}

\* C30: when the lookup found an Online version, every update call comes
\* after a create-draft-from-published call on the found master that
\* succeeded, and targets the draft that call created, never the Online
\* version; when create-draft-from-published fails the result is a failure
\* with operation edit_online and neither an update nor a publish call is
\* issued.
C30_OnlinePathOrdering ==
    (Upserted /\ last.found.status = "Online") =>
        /\ \A i \in CallsOf("edit") : last.calls[i].target = last.found.master
        /\ Cardinality(CallsOf("edit")) <= 1
        /\ \A u \in CallsOf("update") :
              /\ \E e \in CallsOf("edit") : e < u /\ last.calls[e].ok
              /\ last.calls[u].target # last.found.id
              /\ last.calls[u].target \notin PreIds
              /\ \E v \in remote : /\ v.id = last.calls[u].target
                                   /\ v.master = last.found.master
        /\ (\E e \in CallsOf("edit") : ~last.calls[e].ok) =>
              /\ ~last.res.success
              /\ last.res.operation = "edit_online"
              /\ ~Issued("update")
              /\ ~Issued("publish")

\* An Online version found, its draft created, updated and published
C30_Witness ==
    /\ Upserted /\ last.found.status = "Online"
    /\ \E e \in CallsOf("edit"), u \in CallsOf("update"), p \in CallsOf("publish") :
          /\ e < u /\ u < p
          /\ last.calls[e].ok /\ last.calls[u].ok
          /\ last.calls[u].target # last.found.id

-----------------------------------------------------------------------------
(* Reading exportBatch's result while the batch is exported *)

\* The records of the batch in progress that were upserted so far
Done == 1..Len(batchRes.details)

\* The record of the run that detail i of the batch in progress belongs to
RecordOf(i) == assets[totals.totalProcessed + i]

\* C31: inside a batch every record is upserted once, in batch order, and
\* gets one detail entry at its position; a failed upsert does not stop the
\* loop, and the two counters add up to the number of records processed,
\* which is the batch size when the batch returns.
C31_PerRecordIsolation ==
    pc = "export" =>
        /\ Len(batchRes.details) <= BatchLen
        /\ idx = totals.totalProcessed + Len(batchRes.details)
        /\ \A i \in Done : batchRes.details[i].contentId = RecordOf(i)
        /\ batchRes.successCount = Cardinality({i \in Done : batchRes.details[i].success})
        /\ batchRes.failureCount = Cardinality({i \in Done : ~batchRes.details[i].success})
        /\ batchRes.successCount + batchRes.failureCount = Len(batchRes.details)
        /\ Len(batchRes.details) < BatchLen => ENABLED UpsertRecord
        /\ (BatchLen > 0 /\ Len(batchRes.details) = BatchLen) => ENABLED FinishBatch

\* A batch of two records whose first upsert failed and whose second
\* succeeded
C31_Witness ==
    /\ pc = "export"
    /\ BatchLen = 2
    /\ Len(batchRes.details) = 2
    /\ ~batchRes.details[1].success
    /\ batchRes.details[2].success
    /\ batchRes.successCount = 1 /\ batchRes.failureCount = 1

-----------------------------------------------------------------------------
(* Counting the upserts of a run and the calls of an upsert *)

\* The calls that change the remote
WriteOps == {"create", "edit", "update", "publish"}

\* No record is selected twice for a run
SelectedOnce == \A i, j \in 1..Len(assets) : assets[i] = assets[j] => i = j

\* C32: nothing is retried. In a run the upserts made so far are those of
\* the first idx selected records, one each, and an upsert issues at most
\* one create, one create-draft-from-published, one update and one publish
\* call, whatever the calls answer.
C32_NoRetries ==
    /\ pc \in {"export", "done"} =>
          /\ SelectedOnce
          /\ idx <= Len(assets)
          /\ pc = "export" => idx = totals.totalProcessed + Len(batchRes.details)
          /\ pc = "export" => \A i \in Done : batchRes.details[i].contentId = RecordOf(i)
    /\ Upserted => \A op \in WriteOps : Cardinality(CallsOf(op)) <= 1

\* An upsert whose create call failed: the call was issued once and the
\* record is counted as failed.
C32_Witness ==
    /\ Upserted
    /\ Cardinality(CallsOf("create")) = 1
    /\ \E i \in CallsOf("create") : ~last.calls[i].ok
    /\ ~last.res.success
    /\ batchRes.failureCount >= 1

-----------------------------------------------------------------------------
(* Reading the log of the caches *)

\* Entry i is the first call of op in its run
FirstInRun(i, op) ==
    /\ trace[i].op = op
    /\ \E s \in 1..(i - 1) :
          /\ trace[s].op = "beforeStep"
          /\ \A k \in (s + 1)..(i - 1) : trace[k].op \notin {op, "beforeStep"}

\* Entries i < j belong to the same run
SameStep(i, j) == \A k \in (i + 1)..j : trace[k].op # "beforeStep"

\* C33: a run starts with both caches empty, so its first getAccessToken
\* and its first getRecordTypeId for a record type ask the remote; inside a
\* run a record-type id that was returned is returned again, without a
\* query, by every later lookup of the same key.
C33_RunStartsWithEmptyCaches ==
    /\ (trace # <<>> /\ trace[Len(trace)].op = "beforeStep") =>
          /\ tokenCache = NoAuth
          /\ recordTypeCache = NoRecordTypes
    /\ \A i \in Positions :
          /\ FirstInRun(i, "getAccessToken") => trace[i].oauth
          /\ (FirstInRun(i, "getRecordTypeId") /\ trace[i].service \in CacheKeys) =>
                trace[i].oauth
    /\ \A i, j \in Positions :
          (/\ i < j /\ SameStep(i, j)
           /\ trace[i].op = "getRecordTypeId" /\ trace[j].op = "getRecordTypeId"
           /\ trace[i].service = trace[j].service
           /\ trace[i].answer # NoValue)
          => (~trace[j].oauth /\ trace[j].answer = trace[i].answer)

\* Inside one run an id once returned stays cached
CachedWithinRun ==
    \A i, j \in Positions :
          (/\ i < j /\ SameStep(i, j)
           /\ trace[i].op = "getRecordTypeId" /\ trace[j].op = "getRecordTypeId"
           /\ trace[i].service = trace[j].service
           /\ trace[i].answer # NoValue)
          => (~trace[j].oauth /\ trace[j].answer = trace[i].answer)

-----------------------------------------------------------------------------
(* Reading the Language field of what upsert sent *)

\* C34: the Language field is in every create payload and in no update
\* payload, whichever version the update is for.
C34_LanguageOnCreateOnly ==
    \A i \in 1..Len(payload.sent) :
        /\ payload.sent[i].op = "create" => "Language" \in DOMAIN payload.sent[i].body
        /\ payload.sent[i].op = "update" => "Language" \notin DOMAIN payload.sent[i].body

\* The Language field the mapper adds by itself: with a mapping that has no
\* Language key the field is sent on create only
LanguageFromMapperOnly ==
    "Language" \notin DOMAIN config.fieldMapping => C34_LanguageOnCreateOnly

-----------------------------------------------------------------------------
(* Reading the result of an upsert *)

\* The values the result's operation and publishStatus may take
Operations == {"create", "update", "edit_online"}
PublishStatuses == {"draft", "online"}

\* C35: a result that carries an operation carries create, update or
\* edit_online; its publishStatus, when present, is draft or online; a
\* successful result carries a master id and a version id.
C35_ResultWellFormed ==
    Upserted =>
        /\ last.res.operation # NoValue => last.res.operation \in Operations
        /\ last.res.publishStatus # NoValue => last.res.publishStatus \in PublishStatuses
        /\ last.res.success =>
              (last.res.knowledgeArticleId # NoId /\ last.res.versionId # NoId)

\* Apart from the operation of a failed update, results are well formed
ResultWellFormedButOperation ==
    Upserted =>
        /\ last.res.operation # NoValue =>
              last.res.operation \in Operations \cup {"update_draft"}
        /\ last.res.publishStatus # NoValue => last.res.publishStatus \in PublishStatuses
        /\ last.res.success =>
              (last.res.knowledgeArticleId # NoId /\ last.res.versionId # NoId)

-----------------------------------------------------------------------------
(* Reading the runs that publish *)

\* With publishing switched on and nobody publishing by hand, a version that
\* an upsert reported as written and that is still a Draft is one whose
\* publish call failed.
LeftAsDraft(versionId) ==
    /\ config.publishArticles
    /\ \E v \in remote : v.id = versionId /\ v.status = "Draft"

\* The records of the run whose write succeeded and whose publish failed
PublishFailedRecords == {i \in SucceededRecords : LeftAsDraft(runLog[i].versionId)}

\* The assets a former run exported with a failed publish, whose sync
\* metadata it wrote, and that nobody edited since
PublishFailedBefore ==
    {c \in synced : /\ content[c].sfLastSyncDateTime < now
                    /\ LeftAsDraft(content[c].sfKnowledgeVersionId)}

\* C36: for a record whose write succeeded and whose publish failed the
\* callback invokes updateSyncMetadata as for any success, and the write
\* stores the time of the run; the next delta run, with no edit of the
\* asset in between, does not select the asset and so neither upserts nor
\* publishes it.
C36_PublishFailureIsSynced ==
    /\ runLog # LogOff
    /\ pc \in {"export", "done"} =>
          \A i \in PublishFailedRecords :
              /\ runLog[i].metaCalls = 1
              /\ runLog[i].metaOk =>
                    /\ content[runLog[i].c].sfLastSyncDateTime = now
                    /\ content[runLog[i].c].sfKnowledgeVersionId = runLog[i].versionId
                    /\ runLog[i].c \in synced
    /\ (pc \in {"export", "done"} /\ exportMode = "delta") =>
          \A c \in PublishFailedBefore :
              /\ c \notin SelectedAssets
              /\ Upserted => last.c # c
              /\ \A i \in 1..Len(runLog) : runLog[i].c # c

\* The second delta run leaves out online asset "a", which the first run
\* wrote but could not publish
C36_Witness ==
    /\ runs = 2
    /\ pc \in {"export", "done"}
    /\ "a" \in PublishFailedBefore
    /\ "a" \in online
    /\ "a" \notin SelectedAssets

-----------------------------------------------------------------------------
(* Reading the calls of the transform engine *)

\* A spec the engine applies: string notation, object notation with a
\* string type, or a list of those
SingleSpec(transform) ==
    \/ transform.json = "string"
    \/ transform.json = "object" /\ transform.typeKind = "string"

AppliedSpec(transform) ==
    \/ SingleSpec(transform)
    \/ /\ transform.json = "array"
       /\ \A i \in 1..Len(transform.items) : SingleSpec(transform.items[i])

\* C37: a transforms map whose entries are all specs the engine applies
\* passes validateConfiguration without an error.
C37_ValidationAcceptsAppliedSpecs ==
    (/\ applied.fn = "validateConfiguration"
     /\ \A f \in DOMAIN applied.transforms : AppliedSpec(applied.transforms[f]))
    => (applied.validation.valid /\ applied.validation.errors = {})

\* Maps of single specs pass the validation
SingleSpecsPassValidation ==
    (/\ applied.fn = "validateConfiguration"
     /\ \A f \in DOMAIN applied.transforms : SingleSpec(applied.transforms[f]))
    => (applied.validation.valid /\ applied.validation.errors = {})

\* The call was applyMultipleTransforms on a list of k specs
ChainOf(k) ==
    /\ applied.fn = "applyMultipleTransforms"
    /\ Len(applied.transform.items) = k

\* applyTransform over the first one, two and three specs of the list
Step1 == applyTransformValue(applied.value, applied.transform.items[1])
Step2 == applyTransformValue(Step1, applied.transform.items[2])
Step3 == applyTransformValue(Step2, applied.transform.items[3])

UrlSafeApplied ==
    /\ applied.fn = "applyTransform"
    /\ applied.value.type = "string"
    /\ applied.value.chars # <<>>
    /\ applied.transform.json = "string"
    /\ applied.transform.name = "urlSafe"

\* The separator of the call: the parameter, '-' without one
SeparatorApplied ==
    IF applied.transform.parts = <<>> THEN <<"-">> ELSE JoinColon(applied.transform.parts)

\* chars has only [a-z0-9] and the separator, no separator twice in a row,
\* none at either end (separators of at most one character)
UrlSafeShape(chars, separator) ==
    /\ \A i \in 1..Len(chars) :
          IsAlnum(chars[i]) \/ (separator # <<>> /\ chars[i] = separator[1])
    /\ separator # <<>> =>
          /\ \A i \in 1..(Len(chars) - 1) :
                ~(chars[i] = separator[1] /\ chars[i + 1] = separator[1])
          /\ chars # <<>> => (chars[1] # separator[1] /\ chars[Len(chars)] # separator[1])

\* C39: the result of urlSafe on a non-empty string has the shape, for
\* every separator, the empty one of 'urlSafe:' and the ones that are
\* special in regular expressions included.
C39_UrlSafeShape ==
    UrlSafeApplied => UrlSafeShape(applied.result.chars, SeparatorApplied)

\* The shape holds with a separator of one character
UrlSafeShapeWithSeparator ==
    (UrlSafeApplied /\ SeparatorApplied # <<>>) =>
        UrlSafeShape(applied.result.chars, SeparatorApplied)

\* The specs the engine cannot apply: an unknown name or type, a spec that is neither a
\* string nor an object, an object without a type, a replace spec whose
\* pattern does not compile
StringNotationNames ==
    {"replaceSpaces", "urlSafe", "lowercase", "uppercase", "removeSpaces"}

LeavesValueAlone(transform) ==
    \/ transform.json = "string" /\ transform.name \notin StringNotationNames
    \/ /\ transform.json = "object" /\ transform.typeKind = "string"
       /\ transform.name \notin supportedTransforms
    \/ transform.json \notin {"string", "object", "array"}
    \/ transform.json = "object" /\ transform.typeKind = "undefined"
    \/ /\ transform.json = "object" /\ transform.typeKind = "string"
       /\ transform.name = "replace"
       /\ transform.pattern # <<>> /\ ~PatternCompiles(transform.pattern)

\* C40: applyTransform returns for every value and every spec, and for the
\* specs it cannot apply it returns the value it was given.
C40_TransformsNeverAbort ==
    (applied.fn = "applyTransform" /\ LeavesValueAlone(applied.transform))
    => applied.result = applied.value

\* A string, and any falsy value, comes back as it was;
\* any other value comes back as the string String(value)
ValueOrItsString ==
    (applied.fn = "applyTransform" /\ LeavesValueAlone(applied.transform))
    => /\ (applied.value.type = "string" \/ Falsy(applied.value)) =>
             applied.result = applied.value
       /\ applied.result.chars = applied.value.chars

====
